---- MODULE Spec2Model ----
(***************************************************************************)
(* A model of go-impact-analyzer's Analyzer (pkg/analyzer): the resource   *)
(* list, the package dependency graph, the reverse-dependency index, and   *)
(* the queries that read them.  Import paths and file paths are strings,   *)
(* handled with the same prefix/suffix tests the Go code applies.          *)
(***************************************************************************)
EXTENDS Integers, Sequences, FiniteSets, TLC

VARIABLES
    resources,    \* Analyzer.resources: sequence of [Name, Package]
    deps,         \* DependencyGraph.deps: map import path -> sequence of imports
    reverseDeps,  \* Analyzer.reverseDeps: map import path -> sequence of names
    analyzeCalls, \* number of Analyze() calls made so far (history)
    analyzeOk,    \* number of Analyze() calls that returned nil (history)
    lastListing,  \* package listing read by the latest successful Build (history)
    lastCmds,     \* resources found by the latest extraction (history)
    repeated,     \* the latest step was a successful Analyze() that directly
                  \* followed a successful Analyze() of the same project (history)
    op,           \* name of the latest operation
    arg,          \* its argument
    ret,          \* its result: [err, out]
    walk          \* a graph traversal in progress, one loop iteration per step

vars == <<resources, deps, reverseDeps, analyzeCalls, analyzeOk, lastListing, lastCmds,
          repeated, op, arg, ret, walk>>

(***************************************************************************)
(* Bounds of the model.                                                    *)
(***************************************************************************)
MaxAnalyze == 2
MaxFiles == 2
\* loop iterations after which a traversal is given up as not terminating
MaxWalkSteps == 40

(***************************************************************************)
(* Go string helpers (package strings, path/filepath).                     *)
(***************************************************************************)
HasPrefix(s, prefix) ==
    Len(prefix) <= Len(s) /\ SubSeq(s, 1, Len(prefix)) = prefix

HasSuffix(s, suffix) ==
    Len(suffix) <= Len(s) /\ SubSeq(s, Len(s) - Len(suffix) + 1, Len(s)) = suffix

StringsContains(s, substr) ==
    \E i \in 1..(Len(s) - Len(substr) + 1) : SubSeq(s, i, i + Len(substr) - 1) = substr

TrimPrefix(s, prefix) ==
    IF HasPrefix(s, prefix) THEN SubSeq(s, Len(prefix) + 1, Len(s)) ELSE s

\* positions of the separator "/" in s
SlashPositions(s) == {i \in 1..Len(s) : SubSeq(s, i, i) = "/"}

MaxOf(S) == CHOOSE x \in S : \A y \in S : y <= x

\* filepath.Dir for the clean relative paths of the model
FilepathDir(p) ==
    IF SlashPositions(p) = {} THEN "."
    ELSE LET i == MaxOf(SlashPositions(p))
         IN IF i = 1 THEN "/" ELSE SubSeq(p, 1, i - 1)

\* strings.Split(s, "/")
RECURSIVE SplitSlash(_)
SplitSlash(s) ==
    IF SlashPositions(s) = {} THEN <<s>>
    ELSE LET i == CHOOSE x \in SlashPositions(s) : \A y \in SlashPositions(s) : x <= y
         IN <<SubSeq(s, 1, i - 1)>> \o SplitSlash(SubSeq(s, i + 1, Len(s)))

SeqToSet(s) == {s[i] : i \in 1..Len(s)}

\* contains (analyzer.go)
contains(slice, val) == \E i \in 1..Len(slice) : slice[i] = val

\* a variant of uniqueStrings that keeps every occurrence
keepDuplicates(s) == s

\* uniqueStrings keeps the first occurrence of every element
RECURSIVE uniqueStrings(_)
uniqueStrings(s) ==
    IF s = <<>> THEN <<>>
    ELSE LET init == uniqueStrings(SubSeq(s, 1, Len(s) - 1))
             v == s[Len(s)]
         IN IF contains(init, v) THEN init ELSE Append(init, v)

(***************************************************************************)
(* Configuration (Config) of the analyzer under study.                     *)
(***************************************************************************)
ModulePath == "m"
PathPrefix == ""
ProjectRoot == "/r"
ConfigInfrastructureFiles == <<"c/gen.go">>
DefaultInfraPatterns == <<"sqlc/db.go", "sqlc/models.go", "sqlc/querier.go">>

(***************************************************************************)
(* DependencyGraph (graph.go).  A graph g is the deps map.                 *)
(***************************************************************************)
isProjectPackage(pkgPath) == HasPrefix(pkgPath, ModulePath)

FilterProjectImports(imports) ==
    SelectSeq(imports, isProjectPackage)

\* The loop of Build over the listed packages: in-module records overwrite
\* their key, nothing is ever removed from the map.
RECURSIVE Build(_, _)
Build(g, listing) ==
    IF listing = <<>> THEN g
    ELSE LET pkg == Head(listing)
             g1 == IF ~isProjectPackage(pkg.ImportPath) THEN g
                   ELSE [p \in (DOMAIN g) \cup {pkg.ImportPath} |->
                            IF p = pkg.ImportPath
                            THEN FilterProjectImports(pkg.Imports)
                            ELSE g[p]]
         IN Build(g1, Tail(listing))

GetDirectDeps(g, pkgPath) ==
    IF pkgPath \in DOMAIN g THEN g[pkgPath] ELSE <<>>

HasPackage(g, pkgPath) == pkgPath \in DOMAIN g

\* collectAllDeps: depth-first, the dependency is appended before the
\* recursive call looks at the visited set.  st = [visited, result].
RECURSIVE collectAllDeps(_, _, _)
RECURSIVE collectDepsFrom(_, _, _, _)
collectAllDeps(g, pkgPath, st) ==
    IF pkgPath \in st.visited THEN st
    ELSE collectDepsFrom(g, GetDirectDeps(g, pkgPath), 1,
                         [visited |-> st.visited \cup {pkgPath}, result |-> st.result])
collectDepsFrom(g, ds, i, st) ==
    IF i > Len(ds) THEN st
    ELSE collectDepsFrom(g, ds, i + 1,
            collectAllDeps(g, ds[i],
                [visited |-> st.visited, result |-> Append(st.result, ds[i])]))

GetAllDeps(g, pkgPath) ==
    collectAllDeps(g, pkgPath, [visited |-> {}, result |-> <<>>]).result

(***************************************************************************)
(* Analyzer: reverse dependencies and the dependency chain (analyzer.go).  *)
(***************************************************************************)
\* a.reverseDeps[key] = append(a.reverseDeps[key], name)
AppendUnder(rd, key, name) ==
    [p \in (DOMAIN rd) \cup {key} |->
        IF p = key
        THEN (IF key \in DOMAIN rd THEN Append(rd[key], name) ELSE <<name>>)
        ELSE rd[p]]

\* a variant of AppendUnderAll that files the name under the first key only
AppendUnderFirst(rd, keys, name) ==
    IF keys = <<>> THEN rd ELSE AppendUnder(rd, Head(keys), name)

RECURSIVE AppendUnderAll(_, _, _)
AppendUnderAll(rd, keys, name) ==
    IF keys = <<>> THEN rd
    ELSE AppendUnderAll(AppendUnder(rd, Head(keys), name), Tail(keys), name)

RECURSIVE addReverseDeps(_, _, _)
addReverseDeps(rs, g, rd) ==
    IF rs = <<>> THEN rd
    ELSE LET resource == Head(rs)
             rd1 == IF resource.Package = "" THEN rd
                    ELSE AppendUnderAll(
                            AppendUnder(rd, resource.Package, resource.Name),
                            GetAllDeps(g, resource.Package), resource.Name)
         IN addReverseDeps(Tail(rs), g, rd1)

\* buildReverseDependencies appends to the map the Analyzer already holds and
\* then removes duplicates under every key.
buildReverseDependencies(rs, g, rd) ==
    LET filled == addReverseDeps(rs, g, rd)
    IN [p \in DOMAIN filled |-> uniqueStrings(filled[p])]

\* getResourceByName: the first resource with that name, or none (<<>>)
getResourceByName(rs, name) ==
    LET hits == {i \in 1..Len(rs) : rs[i].Name = name}
    IN IF hits = {} THEN <<>>
       ELSE <<rs[CHOOSE i \in hits : \A j \in hits : i <= j]>>

\* a variant of the search loop that takes the newest path first (depth-first)
RECURSIVE chainSearchDepthFirst(_, _, _, _)
chainSearchDepthFirst(g, toPkg, queue, visited) ==
    IF queue = <<>> THEN <<>>
    ELSE LET current == Head(queue)
             rest == Tail(queue)
         IN IF current.pkg \in visited
            THEN chainSearchDepthFirst(g, toPkg, rest, visited)
            ELSE LET ds == GetDirectDeps(g, current.pkg)
                 IN IF contains(ds, toPkg) THEN Append(current.path, toPkg)
                    ELSE chainSearchDepthFirst(g, toPkg,
                            [i \in 1..Len(ds) |->
                                [pkg |-> ds[i], path |-> Append(current.path, ds[i])]]
                            \o rest,
                            visited \cup {current.pkg})

\* The breadth-first loop of getDependencyChain; <<>> stands for nil.
RECURSIVE chainSearch(_, _, _, _)
chainSearch(g, toPkg, queue, visited) ==
    IF queue = <<>> THEN <<>>
    ELSE LET current == Head(queue)
             rest == Tail(queue)
         IN IF current.pkg \in visited THEN chainSearch(g, toPkg, rest, visited)
            ELSE LET ds == GetDirectDeps(g, current.pkg)
                 IN IF contains(ds, toPkg) THEN Append(current.path, toPkg)
                    ELSE chainSearch(g, toPkg,
                            rest \o [i \in 1..Len(ds) |->
                                        [pkg |-> ds[i], path |-> Append(current.path, ds[i])]],
                            visited \cup {current.pkg})

getDependencyChain(g, fromPkg, toPkg) ==
    IF fromPkg = toPkg THEN <<fromPkg>>
    ELSE chainSearch(g, toPkg, <<[pkg |-> fromPkg, path |-> <<fromPkg>>]>>, {})

AffectedEntry(resource, pkgPath, g) ==
    [Name |-> resource.Name,
     Package |-> resource.Package,
     AffectedPackage |-> pkgPath,
     DependencyChain |-> getDependencyChain(g, resource.Package, pkgPath)]

\* a variant of the lookup that answers for an unknown package with the
\* names filed under some other package
lookupAnyPackage(rd, pkgPath) ==
    IF pkgPath \in DOMAIN rd THEN rd[pkgPath]
    ELSE IF DOMAIN rd = {} THEN <<>>
    ELSE rd[CHOOSE p \in DOMAIN rd : TRUE]

LookupReverseDeps(rd, pkgPath) ==
    IF pkgPath \in DOMAIN rd THEN rd[pkgPath] ELSE <<>>

RECURSIVE affectedByPackageLoop(_, _, _, _)
affectedByPackageLoop(names, pkgPath, rs, g) ==
    IF names = <<>> THEN <<>>
    ELSE LET found == getResourceByName(rs, Head(names))
             rest == affectedByPackageLoop(Tail(names), pkgPath, rs, g)
         IN IF found = <<>> THEN rest
            ELSE <<AffectedEntry(found[1], pkgPath, g)>> \o rest

AffectedResourcesByPackage(pkgPath, rs, g, rd) ==
    affectedByPackageLoop(LookupReverseDeps(rd, pkgPath), pkgPath, rs, g)

(***************************************************************************)
(* The source tree read through the FileSystem and go/parser.  A tree maps *)
(* a directory (relative to the project root) to its non-test Go files; a  *)
(* file has a name, the import paths it imports, and its top-level         *)
(* declarations in order.  A declaration records what the AST passes read: *)
(*   name, kind ("func" | "type" | "value"), start and end line,           *)
(*   refs    selector expressions alias.X of its subtree, as <<path, X>>,  *)
(*   calls   names X of the call expressions _.X(...) of its subtree,      *)
(*   returns result types of a function, as <<path, T>> (path "" when the  *)
(*           type is a plain or pointer identifier),                       *)
(*   methods of an interface type, as [name, start, end],                  *)
(*   inits   selector expressions among the call arguments of a value's    *)
(*           initialiser, as <<path, X>>,                                  *)
(*   params  parameter and struct-field types, as <<path, T>>.             *)
(***************************************************************************)
Decl(name, kind, start, end, refs, calls) ==
    [name |-> name, kind |-> kind, start |-> start, end |-> end,
     refs |-> refs, calls |-> calls, returns |-> <<>>, methods |-> <<>>,
     inits |-> {}, params |-> {}, locals |-> <<>>]

Method(name, start, end) == [name |-> name, start |-> start, end |-> end]

SourceFile(name, imports, decls) ==
    [name |-> name, imports |-> imports, decls |-> decls]

UpperCase == {"A", "B", "C", "D", "E", "F", "G", "H", "I", "J", "K", "L", "M",
              "N", "O", "P", "Q", "R", "S", "T", "U", "V", "W", "X", "Y", "Z"}

isExported(name) == Len(name) > 0 /\ SubSeq(name, 1, 1) \in UpperCase

\* GetPackageDir, as the directory relative to the project root
GetPackageDir(pkgPath) == TrimPrefix(TrimPrefix(pkgPath, ModulePath), "/")

\* ReadDir of a package directory: the files, or an error for a missing one
DirExists(tree, dir) == dir \in DOMAIN tree
DirFiles(tree, dir) == IF DirExists(tree, dir) THEN tree[dir] ELSE <<>>

\* a changed file "dir/name.go" parsed from the tree: <<file>> or <<>> (error)
ParseFile(tree, path) ==
    LET dir == IF FilepathDir(path) = "." THEN "" ELSE FilepathDir(path)
        base == IF SlashPositions(path) = {} THEN path
                ELSE SubSeq(path, MaxOf(SlashPositions(path)) + 1, Len(path))
        fs == DirFiles(tree, dir)
        hits == {i \in 1..Len(fs) : fs[i].name = base}
    IN IF hits = {} THEN <<>> ELSE <<fs[CHOOSE i \in hits : TRUE]>>

RECURSIVE FlattenSeq(_)
FlattenSeq(ss) == IF ss = <<>> THEN <<>> ELSE Head(ss) \o FlattenSeq(Tail(ss))

DeclNames(ds) == [i \in 1..Len(ds) |-> ds[i].name]

\* the declarations ast.Inspect meets in a file: every top-level declaration,
\* followed by the type and value declarations inside its body
Inspect(file) ==
    FlattenSeq([k \in 1..Len(file.decls) |-> <<file.decls[k]>> \o file.decls[k].locals])

\* a variant of ExtractExportedSymbols that finds no symbol
noExportedSymbols(file) == <<>>

\* ExtractExportedSymbols: exported functions, types and values, in order
ExtractExportedSymbols(file) ==
    SelectSeq(DeclNames(Inspect(file)), isExported)

\* ExtractAllExportedSymbolsFromDir: first occurrences over the files
ExtractAllExportedSymbolsFromDir(tree, dir) ==
    uniqueStrings(FlattenSeq([i \in 1..Len(DirFiles(tree, dir)) |->
                                ExtractExportedSymbols(DirFiles(tree, dir)[i])]))

\* CheckSymbolUsage: [err, uses]
CheckSymbolUsage(tree, pkgDir, targetPkgPath, symbols) ==
    IF symbols = <<>> THEN [err |-> FALSE, uses |-> FALSE]
    ELSE IF ~DirExists(tree, pkgDir) THEN [err |-> TRUE, uses |-> FALSE]
    ELSE [err |-> FALSE,
          uses |-> \E i \in 1..Len(tree[pkgDir]) :
                     /\ targetPkgPath \in tree[pkgDir][i].imports
                     /\ \E k \in 1..Len(tree[pkgDir][i].decls) :
                          \E r \in tree[pkgDir][i].decls[k].refs :
                             r[1] = targetPkgPath /\ contains(symbols, r[2])]

MethodNames(methods) == {methods[i].MethodName : i \in 1..Len(methods)}

\* CheckMethodCallUsage: [err, uses]
CheckMethodCallUsage(tree, pkgDir, targetPkgPath, methods) ==
    IF methods = <<>> THEN [err |-> FALSE, uses |-> FALSE]
    ELSE IF ~DirExists(tree, pkgDir) THEN [err |-> TRUE, uses |-> FALSE]
    ELSE [err |-> FALSE,
          uses |-> \E i \in 1..Len(tree[pkgDir]) :
                     /\ targetPkgPath \in tree[pkgDir][i].imports
                     /\ \E k \in 1..Len(tree[pkgDir][i].decls) :
                          tree[pkgDir][i].decls[k].calls \cap MethodNames(methods) # {}]

\* the declaration the search for symbolName ends on: the last match in the file
LastDeclNamed(file, symbolName, kinds) ==
    LET hits == {k \in 1..Len(file.decls) :
                    file.decls[k].name = symbolName /\ file.decls[k].kind \in kinds}
    IN IF hits = {} THEN <<>> ELSE <<file.decls[MaxOf(hits)]>>

\* CheckSymbolUsesSymbols (errors are dropped by its callers)
CheckSymbolUsesSymbols(tree, pkgDir, targetPkgPath, targetSymbols, symbolName) ==
    /\ targetSymbols # <<>>
    /\ \E i \in 1..Len(DirFiles(tree, pkgDir)) :
         LET file == DirFiles(tree, pkgDir)[i]
             node == LastDeclNamed(file, symbolName, {"func", "type", "value"})
         IN /\ targetPkgPath \in file.imports
            /\ node # <<>>
            /\ \E r \in node[1].refs : r[1] = targetPkgPath /\ contains(targetSymbols, r[2])

\* CheckSymbolUsesInterfaceMethods (errors are dropped by its callers)
CheckSymbolUsesInterfaceMethods(tree, pkgDir, targetPkgPath, methods, symbolName) ==
    /\ methods # <<>>
    /\ \E i \in 1..Len(DirFiles(tree, pkgDir)) :
         LET node == LastDeclNamed(DirFiles(tree, pkgDir)[i], symbolName, {"func"})
         IN node # <<>> /\ node[1].calls \cap MethodNames(methods) # {}

\* GetFactoryReturnTypes: exported result type names of the named functions
ReturnTypeNames(d) ==
    SelectSeq([i \in 1..Len(d.returns) |-> d.returns[i][2]], isExported)

GetFactoryReturnTypes(tree, pkgDir, functionNames) ==
    FlattenSeq([i \in 1..Len(DirFiles(tree, pkgDir)) |->
        LET ds == DirFiles(tree, pkgDir)[i].decls
        IN FlattenSeq([k \in 1..Len(ds) |->
              IF ds[k].kind = "func" /\ contains(functionNames, ds[k].name)
              THEN ReturnTypeNames(ds[k]) ELSE <<>>])])

(***************************************************************************)
(* Diff-to-symbol mapping (SymbolAnalyzer).  Go builds some of these lists *)
(* by iterating a map; the model lists them in declaration order, and the  *)
(* callers read them through membership only.                              *)
(***************************************************************************)
InRange(changedLines, start, end) ==
    \E i \in 1..Len(changedLines) : changedLines[i] >= start /\ changedLines[i] <= end

ExtractFunctionRanges(file) ==
    SelectSeq(file.decls, LAMBDA d : d.kind = "func" /\ isExported(d.name))

ExtractTypeRanges(file) ==
    SelectSeq(Inspect(file), LAMBDA d : d.kind = "type" /\ isExported(d.name))

ExtractConstantRanges(file) ==
    SelectSeq(Inspect(file), LAMBDA d : d.kind = "value" /\ isExported(d.name))

GetChangedSymbols(file, changedLines) ==
    IF changedLines = <<>> THEN <<>>
    ELSE LET allRanges == ExtractFunctionRanges(file) \o ExtractTypeRanges(file)
                            \o ExtractConstantRanges(file)
         IN uniqueStrings(DeclNames(
                SelectSeq(allRanges, LAMBDA r : InRange(changedLines, r.start, r.end))))

InterfaceMethodsOf(d) ==
    LET ms == SelectSeq(d.methods, LAMBDA m : isExported(m.name))
    IN [i \in 1..Len(ms) |->
            [InterfaceName |-> d.name, MethodName |-> ms[i].name,
             StartLine |-> ms[i].start, EndLine |-> ms[i].end]]

ExtractInterfaceMethodRanges(file) ==
    FlattenSeq([k \in 1..Len(Inspect(file)) |->
        IF Inspect(file)[k].kind = "type" /\ isExported(Inspect(file)[k].name)
        THEN InterfaceMethodsOf(Inspect(file)[k]) ELSE <<>>])

FindInterfacesWithMethods(file, methodNames) ==
    IF methodNames = <<>> THEN <<>>
    ELSE SelectSeq(ExtractInterfaceMethodRanges(file),
                   LAMBDA im : contains(methodNames, im.MethodName))

MethodKey(m) == <<m.InterfaceName, m.MethodName>>

\* uniqueInterfaceMethods keeps the first method of every key
RECURSIVE uniqueInterfaceMethods(_)
uniqueInterfaceMethods(methods) ==
    IF methods = <<>> THEN <<>>
    ELSE LET init == uniqueInterfaceMethods(SubSeq(methods, 1, Len(methods) - 1))
             m == methods[Len(methods)]
         IN IF \E i \in 1..Len(init) : MethodKey(init[i]) = MethodKey(m)
            THEN init ELSE Append(init, m)

GetChangedInterfaceMethods(file, changedLines) ==
    IF changedLines = <<>> THEN <<>>
    ELSE uniqueInterfaceMethods(
            SelectSeq(ExtractInterfaceMethodRanges(file),
                      LAMBDA m : InRange(changedLines, m.StartLine, m.EndLine)))

HasUnexportedChanges(file, changedLines) ==
    /\ changedLines # <<>>
    /\ \E k \in 1..Len(file.decls) :
         /\ file.decls[k].kind = "func"
         /\ ~isExported(file.decls[k].name)
         /\ InRange(changedLines, file.decls[k].start, file.decls[k].end)

\* GetChangedSymbolsDetailed of a parsed file
GetChangedSymbolsDetailed(file, changedLines) ==
    IF changedLines = <<>>
    THEN [Symbols |-> <<>>, InterfaceMethods |-> <<>>, HasUnexportedChanges |-> FALSE]
    ELSE LET symbols == GetChangedSymbols(file, changedLines)
             methods == uniqueInterfaceMethods(
                            GetChangedInterfaceMethods(file, changedLines)
                            \o FindInterfacesWithMethods(file, symbols))
             hasUnexportedChanges == HasUnexportedChanges(file, changedLines)
             widened == IF hasUnexportedChanges
                        THEN uniqueStrings(symbols \o ExtractExportedSymbols(file))
                        ELSE symbols
         IN [Symbols |-> widened, InterfaceMethods |-> methods,
             HasUnexportedChanges |-> hasUnexportedChanges]

(***************************************************************************)
(* fileToPackage and isInfrastructureFile (analyzer.go).                   *)
(***************************************************************************)
IsAbs(path) == HasPrefix(path, "/")

\* filepath.Rel(ProjectRoot, path) for a path below the project root
RelToRoot(path) == TrimPrefix(path, ProjectRoot \o "/")

fileToPackage(filePath) ==
    LET relPath == TrimPrefix(IF IsAbs(filePath) THEN RelToRoot(filePath) ELSE filePath,
                              PathPrefix)
    IN IF ~HasSuffix(relPath, ".go") THEN ""
       ELSE IF FilepathDir(relPath) = "." THEN ModulePath
       ELSE ModulePath \o "/" \o FilepathDir(relPath)

MatchesInfraPattern(normalizedPath, patterns) ==
    \E i \in 1..Len(patterns) :
        normalizedPath = patterns[i] \/ HasSuffix(normalizedPath, "/" \o patterns[i])

isInfrastructureFile(filePath) ==
    LET normalizedPath == TrimPrefix(filePath, PathPrefix)
    IN \/ MatchesInfraPattern(normalizedPath, ConfigInfrastructureFiles)
       \/ MatchesInfraPattern(normalizedPath, DefaultInfraPatterns)

\* the path handed to the parser, relative to the project root
AbsPath(file) ==
    IF IsAbs(file) THEN RelToRoot(file) ELSE TrimPrefix(file, PathPrefix)

(***************************************************************************)
(* isResourceAffectedBySymbols and its helpers (analyzer.go).  Every loop  *)
(* of the Go code either returns true or moves to the next element, so a   *)
(* loop is the disjunction of its iterations.                              *)
(***************************************************************************)
\* the exported symbols that a factory function among `affected` returns
FactoryInterfaces(tree, pkgDir, allExportedSymbols, affected) ==
    IF affected = <<>> THEN <<>>
    ELSE uniqueStrings(SelectSeq(GetFactoryReturnTypes(tree, pkgDir, affected),
            LAMBDA rt : contains(allExportedSymbols, rt) /\ ~contains(affected, rt)))

getAffectedExportedSymbols(tree, pkgPath, changedPkgPath, changedSymbols) ==
    LET pkgDir == GetPackageDir(pkgPath)
        allExportedSymbols == ExtractAllExportedSymbolsFromDir(tree, pkgDir)
        affectedSymbols == SelectSeq(allExportedSymbols, LAMBDA sym :
            CheckSymbolUsesSymbols(tree, pkgDir, changedPkgPath, changedSymbols, sym))
    IN IF ~DirExists(tree, pkgDir) THEN <<>>
       ELSE affectedSymbols
                \o FactoryInterfaces(tree, pkgDir, allExportedSymbols, affectedSymbols)

getAffectedExportedSymbolsByMethods(tree, pkgPath, changedPkgPath, changedMethods) ==
    LET pkgDir == GetPackageDir(pkgPath)
        allExportedSymbols == ExtractAllExportedSymbolsFromDir(tree, pkgDir)
        affectedSymbols == SelectSeq(allExportedSymbols, LAMBDA sym :
            CheckSymbolUsesInterfaceMethods(tree, pkgDir, changedPkgPath, changedMethods, sym))
    IN IF ~DirExists(tree, pkgDir) THEN <<>>
       ELSE affectedSymbols
                \o FactoryInterfaces(tree, pkgDir, allExportedSymbols, affectedSymbols)

\* the resource's package followed by those of its dependencies that lie below it
packagesToCheck(g, resource) ==
    <<resource.Package>> \o SelectSeq(GetAllDeps(g, resource.Package),
                                LAMBDA dep : HasPrefix(dep, resource.Package \o "/"))

\* the type references (parameter and struct-field types) of a package
\* directory that name one of typeNames of providerPkg
CheckTypeUsage(tree, pkgDir, providerPkg, typeNames) ==
    \E i \in 1..Len(DirFiles(tree, pkgDir)) :
        \E k \in 1..Len(DirFiles(tree, pkgDir)[i].decls) :
            \E t \in DirFiles(tree, pkgDir)[i].decls[k].params :
                t[1] = providerPkg /\ contains(typeNames, t[2])

\* findInterfaceDefinitionPackages: import path -> the interface names that a
\* function of the provider directory returns from it
QualifiedReturns(tree, providerPkgDir, interfaceNames) ==
    FlattenSeq([i \in 1..Len(DirFiles(tree, providerPkgDir)) |->
        LET file == DirFiles(tree, providerPkgDir)[i]
        IN FlattenSeq([k \in 1..Len(file.decls) |->
              IF file.decls[k].kind # "func" THEN <<>>
              ELSE SelectSeq(file.decls[k].returns, LAMBDA t :
                      /\ t[1] # "" /\ t[1] \in file.imports
                      /\ contains(interfaceNames, t[2]))])])

findInterfaceDefinitionPackages(tree, providerPkgDir, interfaceNames) ==
    LET hits == QualifiedReturns(tree, providerPkgDir, interfaceNames)
    IN [interfacePkg \in {hits[i][1] : i \in 1..Len(hits)} |->
          LET mine == SelectSeq(hits, LAMBDA t : t[1] = interfacePkg)
          IN [i \in 1..Len(mine) |-> mine[i][2]]]

\* the closing loops shared by the provider and the aggregator branch
UsesProvidedInterface(tree, g, resource, interfacePackages) ==
    \E n \in 1..Len(packagesToCheck(g, resource)) :
        LET pkgDir == GetPackageDir(packagesToCheck(g, resource)[n])
        IN \E interfacePkg \in DOMAIN interfacePackages :
              \/ CheckTypeUsage(tree, pkgDir, interfacePkg, interfacePackages[interfacePkg])
              \/ CheckSymbolUsage(tree, pkgDir, interfacePkg,
                                  interfacePackages[interfacePkg]).uses

isResourceAffectedByProviderChange(tree, g, resource, changedPkgPath, info) ==
    LET providerPkgDir == GetPackageDir(changedPkgPath)
        bySymbol == FlattenSeq([i \in 1..Len(info.symbols) |->
                        GetFactoryReturnTypes(tree, providerPkgDir, <<info.symbols[i]>>)])
        providedInterfaces ==
            IF bySymbol # <<>> THEN bySymbol
            ELSE GetFactoryReturnTypes(tree, providerPkgDir, <<"New">>)
    IN /\ providedInterfaces # <<>>
       /\ UsesProvidedInterface(tree, g, resource,
            findInterfaceDefinitionPackages(tree, providerPkgDir, providedInterfaces))

isAggregatorProviderPackage(pkgPath) ==
    /\ ~StringsContains(pkgPath, "/pkg/provider/")
    /\ LET parts == SplitSlash(pkgPath)
       IN \E i \in 1..Len(parts) :
            /\ parts[i] = "provider"
            /\ (i = Len(parts) \/ parts[i + 1] = "internal")

\* extractReferencedProviders, as the set of the provider import paths
extractReferencedProviders(tree, pkgDir, changedSymbols) ==
    UNION {UNION {
        IF /\ DirFiles(tree, pkgDir)[i].decls[k].kind = "value"
           /\ (changedSymbols = <<>>
                 \/ contains(changedSymbols, DirFiles(tree, pkgDir)[i].decls[k].name))
        THEN {e[1] : e \in {x \in DirFiles(tree, pkgDir)[i].decls[k].inits :
                              /\ x[1] \in DirFiles(tree, pkgDir)[i].imports
                              /\ (StringsContains(x[1], "provider") \/ x[2] = "Provider")}}
        ELSE {} : k \in 1..Len(DirFiles(tree, pkgDir)[i].decls)}
      : i \in 1..Len(DirFiles(tree, pkgDir))}

isResourceAffectedByAggregatorChange(tree, g, resource, changedPkgPath, info) ==
    \E providerPkg \in extractReferencedProviders(tree, GetPackageDir(changedPkgPath),
                                                  info.symbols) :
        LET providerDir == GetPackageDir(providerPkg)
            returnTypes == GetFactoryReturnTypes(tree, providerDir, <<"New">>)
        IN /\ returnTypes # <<>>
           /\ UsesProvidedInterface(tree, g, resource,
                findInterfaceDefinitionPackages(tree, providerDir, returnTypes))

\* pkg itself when it imports the changed package, then those of its
\* dependencies that import it
directImporters(g, pkg, changedPkgPath) ==
    (IF contains(GetDirectDeps(g, pkg), changedPkgPath) THEN <<pkg>> ELSE <<>>)
    \o SelectSeq(GetAllDeps(g, pkg),
                 LAMBDA dep : contains(GetDirectDeps(g, dep), changedPkgPath))

\* a variant of the additional check that asks only for a bridge symbol
anyBridgeSymbol(tree, resource, pkg, directImporter, affectedSymbolsInImporter) ==
    affectedSymbolsInImporter # <<>>

\* the "additional check" for an intermediate direct importer
UsesAffectedFromImporter(tree, resource, pkg, directImporter, affectedSymbolsInImporter) ==
    /\ affectedSymbolsInImporter # <<>>
    /\ \/ CheckSymbolUsage(tree, GetPackageDir(pkg), directImporter,
                           affectedSymbolsInImporter).uses
       \/ CheckSymbolUsage(tree, GetPackageDir(resource.Package), directImporter,
                           affectedSymbolsInImporter).uses

\* one iteration of the loop over the direct importers: TRUE when it returns true
ImporterShowsUse(tree, resource, pkg, directImporter, changedPkgPath, info) ==
    LET pkgDir == GetPackageDir(directImporter)
        usesSymbols == CheckSymbolUsage(tree, pkgDir, changedPkgPath, info.symbols)
        usesMethods == CheckMethodCallUsage(tree, pkgDir, changedPkgPath,
                                            info.interfaceMethods)
    IN IF info.symbols # <<>> /\ usesSymbols.err THEN FALSE
       ELSE IF info.symbols # <<>> /\ usesSymbols.uses
       THEN \/ directImporter = pkg
            \/ UsesAffectedFromImporter(tree, resource, pkg, directImporter,
                  getAffectedExportedSymbols(tree, directImporter, changedPkgPath,
                                             info.symbols))
       ELSE /\ info.interfaceMethods # <<>>
            /\ ~usesMethods.err
            /\ usesMethods.uses
            /\ \/ directImporter = pkg
               \/ UsesAffectedFromImporter(tree, resource, pkg, directImporter,
                     getAffectedExportedSymbolsByMethods(tree, directImporter,
                                             changedPkgPath, info.interfaceMethods))

\* a variant of nothingChanged that takes every change for a change of symbols
alwaysChanged(info) == FALSE

\* len(info.symbols) == 0 && len(info.interfaceMethods) == 0
nothingChanged(info) == info.symbols = <<>> /\ info.interfaceMethods = <<>>

isResourceAffectedBySymbols(tree, g, resource, changedPkgPath, info) ==
    IF nothingChanged(info) THEN FALSE
    ELSE IF \/ resource.Package = changedPkgPath
            \/ HasPrefix(changedPkgPath, resource.Package \o "/") THEN TRUE
    ELSE IF StringsContains(changedPkgPath, "/pkg/provider/")
    THEN isResourceAffectedByProviderChange(tree, g, resource, changedPkgPath, info)
    ELSE IF isAggregatorProviderPackage(changedPkgPath)
    THEN isResourceAffectedByAggregatorChange(tree, g, resource, changedPkgPath, info)
    ELSE \E n \in 1..Len(packagesToCheck(g, resource)) :
            LET pkg == packagesToCheck(g, resource)[n]
                importers == directImporters(g, pkg, changedPkgPath)
            IN /\ contains(GetAllDeps(g, pkg), changedPkgPath)
               /\ \E j \in 1..Len(importers) :
                    ImporterShowsUse(tree, resource, pkg, importers[j],
                                     changedPkgPath, info)

(***************************************************************************)
(* GetAffectedResources (analyzer.go).  ws is the workspace the query      *)
(* reads: ws.tree is the source tree and ws.diff maps a file to the line   *)
(* numbers `git diff` reports for it (GetChangedLines yields no lines and  *)
(* no error for a file without a diff).                                    *)
(***************************************************************************)
GetChangedLines(diff, file) == IF file \in DOMAIN diff THEN diff[file] ELSE <<>>

NoChange ==
    [symbols |-> <<>>, infraSymbols |-> <<>>, interfaceMethods |-> <<>>,
     hasUnexportedChanges |-> FALSE]

\* what one changed file adds to the symbols gathered for its package
FileChange(ws, file) ==
    LET changedLines == GetChangedLines(ws.diff, file)
        parsed == ParseFile(ws.tree, AbsPath(file))
        isInfra == isInfrastructureFile(file)
    IN IF parsed = <<>> THEN NoChange
       ELSE IF changedLines = <<>>
       THEN IF isInfra
            THEN [NoChange EXCEPT !.infraSymbols = ExtractExportedSymbols(parsed[1])]
            ELSE [NoChange EXCEPT !.symbols = ExtractExportedSymbols(parsed[1])]
       ELSE LET symbolInfo == GetChangedSymbolsDetailed(parsed[1], changedLines)
            IN IF isInfra
               THEN [NoChange EXCEPT !.infraSymbols = symbolInfo.Symbols]
               ELSE [symbols |-> symbolInfo.Symbols,
                     infraSymbols |-> <<>>,
                     interfaceMethods |-> symbolInfo.InterfaceMethods,
                     hasUnexportedChanges |-> symbolInfo.HasUnexportedChanges]

\* changedSymbolsInfo of one package, from its changed files in input order
PackageChange(ws, files) ==
    LET parts == [i \in 1..Len(files) |-> FileChange(ws, files[i])]
        allInfrastructure == \A i \in 1..Len(files) : isInfrastructureFile(files[i])
        infraSymbols == FlattenSeq([i \in 1..Len(parts) |-> parts[i].infraSymbols])
        gathered == FlattenSeq([i \in 1..Len(parts) |-> parts[i].symbols])
        changedSymbols ==
            uniqueStrings(IF allInfrastructure /\ infraSymbols # <<>>
                          THEN infraSymbols ELSE gathered)
        changedInterfaceMethods ==
            uniqueInterfaceMethods(
                FlattenSeq([i \in 1..Len(parts) |-> parts[i].interfaceMethods]))
        interfaceNames == {changedInterfaceMethods[i].InterfaceName :
                              i \in 1..Len(changedInterfaceMethods)}
    IN [symbols |-> IF changedInterfaceMethods # <<>>
                    THEN SelectSeq(changedSymbols, LAMBDA sym : sym \notin interfaceNames)
                    ELSE changedSymbols,
        interfaceMethods |-> changedInterfaceMethods,
        hasUnexportedChanges |-> \E i \in 1..Len(parts) : parts[i].hasUnexportedChanges]

\* filesByPackage: the Go files of the input, grouped by inferred package
ChangedPackages(changedFiles) ==
    {fileToPackage(changedFiles[i]) : i \in 1..Len(changedFiles)} \ {""}

filesByPackage(changedFiles, pkgPath) ==
    SelectSeq(changedFiles, LAMBDA file : fileToPackage(file) = pkgPath)

\* a variant of visitResource that records one entry per (name, package)
visitResourcePerPackage(ws, g, rs, affectedMap, name, pkgPath, info) ==
    LET found == getResourceByName(rs, name)
    IN IF found = <<>> THEN affectedMap
       ELSE IF ~isResourceAffectedBySymbols(ws.tree, g, found[1], pkgPath, info)
       THEN affectedMap
       ELSE [k \in (DOMAIN affectedMap) \cup {<<name, pkgPath>>} |->
                IF k = <<name, pkgPath>> THEN AffectedEntry(found[1], pkgPath, g)
                ELSE affectedMap[k]]

\* the body of the loop over reverseDeps[pkgPath]; affectedMap is keyed by name
visitResource(ws, g, rs, affectedMap, name, pkgPath, info) ==
    LET found == getResourceByName(rs, name)
    IN IF name \in DOMAIN affectedMap \/ found = <<>> THEN affectedMap
       ELSE IF ~isResourceAffectedBySymbols(ws.tree, g, found[1], pkgPath, info)
       THEN affectedMap
       ELSE [k \in (DOMAIN affectedMap) \cup {name} |->
                IF k = name THEN AffectedEntry(found[1], pkgPath, g)
                ELSE affectedMap[k]]

RECURSIVE visitResources(_, _, _, _, _, _, _)
visitResources(ws, g, rs, affectedMap, names, pkgPath, info) ==
    IF names = <<>> THEN affectedMap
    ELSE visitResources(ws, g, rs,
            visitResource(ws, g, rs, affectedMap, Head(names), pkgPath, info),
            Tail(names), pkgPath, info)

\* the loop over filesByPackage, in the order pkgOrder of one map iteration
RECURSIVE visitPackages(_, _, _, _, _, _, _)
visitPackages(ws, g, rs, rd, changedFiles, pkgOrder, affectedMap) ==
    IF pkgOrder = <<>> THEN affectedMap
    ELSE LET pkgPath == Head(pkgOrder)
             info == PackageChange(ws, filesByPackage(changedFiles, pkgPath))
         IN visitPackages(ws, g, rs, rd, changedFiles, Tail(pkgOrder),
                visitResources(ws, g, rs, affectedMap,
                               LookupReverseDeps(rd, pkgPath), pkgPath, info))

EmptyMap == [k \in {} |-> <<>>]

\* all sequences that list every element of S once: the orders of a map iteration
Orderings(S) ==
    {f \in [1..Cardinality(S) -> S] : \A i, j \in 1..Cardinality(S) : f[i] = f[j] => i = j}

\* the map GetAffectedResources has filled when it starts to copy it out
AffectedMap(ws, g, rs, rd, changedFiles, pkgOrder) ==
    visitPackages(ws, g, rs, rd, changedFiles, pkgOrder, EmptyMap)

\* the copy-out loop: the values of the map in the order keys of its iteration
RECURSIVE MapValues(_, _)
MapValues(affectedMap, keys) ==
    IF keys = <<>> THEN <<>>
    ELSE <<affectedMap[Head(keys)]>> \o MapValues(affectedMap, Tail(keys))

\* the lists GetAffectedResources can return for one input
AffectedResources(ws, g, rs, rd, changedFiles) ==
    UNION {{MapValues(affectedMap, keys) : keys \in Orderings(DOMAIN affectedMap)} :
            affectedMap \in {AffectedMap(ws, g, rs, rd, changedFiles, pkgOrder) :
                                pkgOrder \in Orderings(ChangedPackages(changedFiles))}}

(***************************************************************************)
(* The project under analysis: the checked-out source tree with its diff,  *)
(* the package listings `go list` can report, and the command directories  *)
(* the extractor can read.                                                 *)
(***************************************************************************)
MainGo ==
    SourceFile("main.go", {"m/b", "m/c"},
        <<Decl("Run", "func", 1, 5, {<<"m/b", "Helper">>}, {}),
          Decl("useRow", "func", 7, 9, {<<"m/c", "Row">>}, {})>>)

JGo ==
    SourceFile("j.go", {"m/b"},
        <<Decl("Work", "func", 1, 5, {<<"m/b", "FetchUser">>, <<"m/b", "Svc">>}, {})>>)

\* NewSvc is a factory: it reads m/c.Row and returns the exported type Svc
UGo ==
    SourceFile("u.go", {"m/c"},
        <<Decl("FetchUser", "func", 1, 5, {<<"m/c", "GetUser">>}, {"Fetch"}),
          Decl("Helper", "func", 7, 9, {}, {}),
          [Decl("NewSvc", "func", 11, 15, {<<"m/c", "Row">>}, {})
             EXCEPT !.returns = <<<<"", "Svc">>>>],
          Decl("Svc", "type", 17, 19, {}, {})>>)

XGo ==
    SourceFile("x.go", {},
        <<Decl("GetUser", "func", 1, 5, {}, {}),
          Decl("helper", "func", 7, 9, {}, {}),
          Decl("Other", "func", 11, 15, {}, {})>>)

GenGo == SourceFile("gen.go", {}, <<Decl("Row", "type", 1, 3, {}, {})>>)

\* a file without exported declarations
DGo == SourceFile("d.go", {}, <<Decl("note", "value", 1, 1, {}, {})>>)

IGo ==
    SourceFile("i.go", {},
        <<[Decl("Client", "type", 1, 4, {}, {})
             EXCEPT !.methods = <<Method("Fetch", 2, 2), Method("Close", 3, 3)>>]>>)

Tree ==
    [dir \in {"a", "a/j", "b", "c"} |->
        CASE dir = "a" -> <<MainGo>>
          [] dir = "a/j" -> <<JGo>>
          [] dir = "b" -> <<UGo>>
          [] dir = "c" -> <<XGo, GenGo, IGo, DGo>>]

\* a/main.go: the unexported useRow; c/x.go: GetUser; c/gen.go: Row;
\* c/i.go: the method Fetch of Client; c/d.go: a line outside every
\* declaration; a/j/j.go and b/u.go have no diff
Diff ==
    [file \in {"a/main.go", "c/x.go", "c/gen.go", "c/i.go", "c/d.go"} |->
        CASE file = "a/main.go" -> <<8>>
          [] file = "c/d.go" -> <<3>>
          [] file = "c/x.go" -> <<2>>
          [] file = "c/gen.go" -> <<2>>
          [] file = "c/i.go" -> <<2>>]

Workspace == [tree |-> Tree, diff |-> Diff]

\* the paths a caller passes as changed files
ChangedFileNames ==
    <<"README.md", "a/j/j.go", "a/main.go", "b/u.go", "c/d.go", "c/gen.go", "c/i.go",
      "c/x.go">>

\* the changedFiles inputs: up to MaxFiles names, repetitions allowed.  The
\* order of the files of one package only orders the gathered symbols, which
\* are read through membership, so the names are listed in one order.
ChangedFileLists ==
    UNION {{[i \in 1..n |-> ChangedFileNames[idx[i]]] :
              idx \in {f \in [1..n -> 1..Len(ChangedFileNames)] :
                          \A i \in 1..n : \A j \in 1..n : i <= j => f[i] <= f[j]}}
           : n \in 0..MaxFiles}

Package(importPath, imports) == [ImportPath |-> importPath, Imports |-> imports]

LMain ==
    <<Package("m/a", <<"fmt", "m/b", "m/c">>), Package("m/a/j", <<"m/b">>),
      Package("m/b", <<"m/c">>), Package("m/c", <<>>)>>

LDiamond ==
    <<Package("m/a", <<"m/a/j", "m/b">>), Package("m/a/j", <<"m/b">>),
      Package("m/b", <<"m/c">>), Package("m/c", <<>>)>>

LCycle ==
    <<Package("m/a", <<"m/b">>), Package("m/b", <<"m/c">>), Package("m/c", <<"m/a">>)>>

\* "mx/q" belongs to another module, whose path begins like ModulePath
LSmall ==
    <<Package("m/a", <<>>), Package("m/c", <<"fmt", "mx/q">>), Package("mx/q", <<>>)>>

Listings == {LMain, LDiamond, LCycle, LSmall}

Resource(name, pkg) == [Name |-> name, Package |-> pkg]

CmdFile(file, rs) == [file |-> file, resources |-> rs]

CmdGateway == <<CmdFile("api.go", <<Resource("gw", "m/a")>>)>>

CmdAll ==
    <<CmdFile("api.go", <<Resource("gw", "m/a"), Resource("tool", "")>>),
      CmdFile("job.go", <<Resource("job", "m/a/j")>>)>>

CmdMoved == <<CmdFile("api.go", <<Resource("gw", "m/c")>>)>>

CommandDirs == {CmdGateway, CmdAll, CmdMoved}

\* ExtractFromDir: the resources of the command files, in the order in which
\* the iteration over the extractor's file map visits them
ExtractFromDir(cmdFiles, order) ==
    FlattenSeq([i \in 1..Len(order) |-> cmdFiles[order[i]].resources])

QueryPackages == {"m/a", "m/a/j", "m/b", "m/c", "m/z"}

(***************************************************************************)
(* The state machine.                                                      *)
(***************************************************************************)
NoError == ""

\* no traversal is in progress
NoWalk == [pc |-> "idle"]

Init ==
    /\ resources = <<>>
    /\ deps = EmptyMap
    /\ reverseDeps = EmptyMap
    /\ analyzeCalls = 0
    /\ analyzeOk = 0
    /\ lastListing = <<>>
    /\ lastCmds = <<>>
    /\ repeated = FALSE
    /\ op = "NewAnalyzer"
    /\ arg = <<>>
    /\ ret = [err |-> NoError, out |-> <<>>]
    /\ walk = NoWalk

\* Analyze() when `go list` answers
AnalyzeSucceeds ==
    /\ analyzeCalls < MaxAnalyze
    /\ \E cmdFiles \in CommandDirs, listing \in Listings :
         \E order \in Orderings(1..Len(cmdFiles)) :
            LET extracted == ExtractFromDir(cmdFiles, order)
                g == Build(deps, listing)
            IN /\ resources' = extracted
               /\ deps' = g
               /\ reverseDeps' = buildReverseDependencies(extracted, g, reverseDeps)
               /\ lastListing' = listing
               /\ lastCmds' = extracted
               /\ repeated' = (/\ op = "Analyze" /\ ret.err = NoError
                               /\ listing = lastListing
                               /\ SeqToSet(extracted) = SeqToSet(lastCmds))
    /\ analyzeCalls' = analyzeCalls + 1
    /\ analyzeOk' = analyzeOk + 1
    /\ op' = "Analyze"
    /\ arg' = <<>>
    /\ ret' = [err |-> NoError, out |-> <<>>]
    /\ UNCHANGED walk

\* a variant of the failing Analyze() that indexes the resources before it fails
AnalyzeFailsAfterIndexing ==
    /\ analyzeCalls < MaxAnalyze
    /\ \E cmdFiles \in CommandDirs :
         \E order \in Orderings(1..Len(cmdFiles)) :
            /\ resources' = ExtractFromDir(cmdFiles, order)
            /\ lastCmds' = ExtractFromDir(cmdFiles, order)
            /\ reverseDeps' = buildReverseDependencies(
                                 ExtractFromDir(cmdFiles, order), deps, reverseDeps)
    /\ analyzeCalls' = analyzeCalls + 1
    /\ op' = "Analyze"
    /\ arg' = <<>>
    /\ ret' = [err |-> "failed to build dependency graph", out |-> <<>>]
    /\ repeated' = FALSE
    /\ UNCHANGED <<walk, deps, analyzeOk, lastListing>>

\* Analyze() when `go list` fails: the resources are already assigned
AnalyzeListerFails ==
    /\ analyzeCalls < MaxAnalyze
    /\ \E cmdFiles \in CommandDirs :
         \E order \in Orderings(1..Len(cmdFiles)) :
            /\ resources' = ExtractFromDir(cmdFiles, order)
            /\ lastCmds' = ExtractFromDir(cmdFiles, order)
    /\ analyzeCalls' = analyzeCalls + 1
    /\ op' = "Analyze"
    /\ arg' = <<>>
    /\ ret' = [err |-> "failed to build dependency graph", out |-> <<>>]
    /\ repeated' = FALSE
    /\ UNCHANGED <<walk, deps, reverseDeps, analyzeOk, lastListing>>

\* Analyze() when the extractor cannot load the command packages: it returns
\* before it assigns anything
AnalyzeExtractorFails ==
    /\ analyzeCalls < MaxAnalyze
    /\ analyzeCalls' = analyzeCalls + 1
    /\ op' = "Analyze"
    /\ arg' = <<>>
    /\ ret' = [err |-> "failed to extract resources", out |-> <<>>]
    /\ repeated' = FALSE
    /\ UNCHANGED <<walk, resources, deps, reverseDeps, analyzeOk, lastListing, lastCmds>>

GetResources ==
    /\ op' = "GetResources"
    /\ arg' = <<>>
    /\ ret' = [err |-> NoError, out |-> resources]
    /\ repeated' = FALSE
    /\ UNCHANGED <<walk, resources, deps, reverseDeps, analyzeCalls, analyzeOk,
                   lastListing, lastCmds>>

\* a variant of GetReverseDeps that registers the queried package in the index
GetReverseDepsRegistering ==
    \E pkgPath \in QueryPackages :
        /\ op' = "GetReverseDeps"
        /\ arg' = pkgPath
        /\ ret' = [err |-> NoError, out |-> LookupReverseDeps(reverseDeps, pkgPath)]
        /\ reverseDeps' = [k \in (DOMAIN reverseDeps) \cup {pkgPath} |->
                             LookupReverseDeps(reverseDeps, k)]
        /\ repeated' = FALSE
        /\ UNCHANGED <<walk, resources, deps, analyzeCalls, analyzeOk,
                       lastListing, lastCmds>>

GetReverseDeps ==
    \E pkgPath \in QueryPackages :
        /\ op' = "GetReverseDeps"
        /\ arg' = pkgPath
        /\ ret' = [err |-> NoError, out |-> LookupReverseDeps(reverseDeps, pkgPath)]
        /\ repeated' = FALSE
        /\ UNCHANGED <<walk, resources, deps, reverseDeps, analyzeCalls, analyzeOk,
                       lastListing, lastCmds>>

GetAffectedResourcesByPackage ==
    \E pkgPath \in QueryPackages :
        /\ op' = "GetAffectedResourcesByPackage"
        /\ arg' = pkgPath
        /\ ret' = [err |-> NoError,
                   out |-> AffectedResourcesByPackage(pkgPath, resources, deps, reverseDeps)]
        /\ repeated' = FALSE
        /\ UNCHANGED <<walk, resources, deps, reverseDeps, analyzeCalls, analyzeOk,
                       lastListing, lastCmds>>

GetAffectedResources ==
    \E changedFiles \in ChangedFileLists :
        \E result \in AffectedResources(Workspace, deps, resources, reverseDeps,
                                        changedFiles) :
            /\ op' = "GetAffectedResources"
            /\ arg' = changedFiles
            /\ ret' = [err |-> NoError, out |-> result]
            /\ repeated' = FALSE
            /\ UNCHANGED <<walk, resources, deps, reverseDeps, analyzeCalls, analyzeOk,
                           lastListing, lastCmds>>

\* DependencyGraph.GetAllDeps on the analyzer's graph
GraphGetAllDeps ==
    \E pkgPath \in QueryPackages :
        /\ op' = "GetAllDeps"
        /\ arg' = pkgPath
        /\ ret' = [err |-> NoError, out |-> GetAllDeps(deps, pkgPath)]
        /\ repeated' = FALSE
        /\ UNCHANGED <<walk, resources, deps, reverseDeps, analyzeCalls, analyzeOk,
                       lastListing, lastCmds>>

Next ==
    \/ AnalyzeSucceeds
    \/ AnalyzeListerFails
    \/ AnalyzeExtractorFails
    \/ GetResources
    \/ GetReverseDeps
    \/ GetAffectedResourcesByPackage
    \/ GetAffectedResources
    \/ GraphGetAllDeps

Spec == Init /\ [][Next]_vars

(***************************************************************************)
(* The traversals of the graph, one loop iteration or call per step:       *)
(* GetAllDeps with the call stack of collectAllDeps, and the queue loop of *)
(* getDependencyChain.  walk.expanded logs the packages whose imports were *)
(* read, walk.skipped counts the visits cut short by the visited set.      *)
(***************************************************************************)
\* a listing with self-imports
LSelf == <<Package("m/a", <<"m/a", "m/b">>), Package("m/b", <<"m/b", "m/a">>)>>

WalkListings == Listings \cup {LSelf}

\* the graphs one or two Build calls leave behind
WalkGraphs == {Build(Build(EmptyMap, l1), l2) : l1 \in WalkListings, l2 \in WalkListings}

\* a variant of the visited test that never finds a package visited
neverVisited(visited, pkgPath) == FALSE

\* if visited[pkgPath]
alreadyVisited(visited, pkgPath) == pkgPath \in visited

Frame(pkgPath, i) == [pkg |-> pkgPath, i |-> i]

WalkDone(w, result) == [w EXCEPT !.pc = "done", !.result = result]

InitWalk ==
    /\ resources = <<>>
    /\ deps \in WalkGraphs
    /\ reverseDeps = EmptyMap
    /\ analyzeCalls = 0
    /\ analyzeOk = 0
    /\ lastListing = <<>>
    /\ lastCmds = <<>>
    /\ repeated = FALSE
    /\ op = "NewAnalyzer"
    /\ arg = <<>>
    /\ ret = [err |-> NoError, out |-> <<>>]
    /\ walk = NoWalk

WalkFrame ==
    UNCHANGED <<resources, deps, reverseDeps, analyzeCalls, analyzeOk, lastListing,
                lastCmds, repeated, op, arg, ret>>

\* GetAllDeps(pkgPath) is called: empty visited and result, first call of
\* collectAllDeps
GetAllDepsCalled ==
    /\ walk.pc = "idle"
    /\ \E pkgPath \in QueryPackages :
         walk' = [pc |-> "collect", root |-> pkgPath, target |-> "",
                  stack |-> <<Frame(pkgPath, 0)>>, queue |-> <<>>, visited |-> {},
                  result |-> <<>>, expanded |-> <<>>, skipped |-> 0, steps |-> 0]
    /\ WalkFrame

\* collectAllDeps is entered: return if visited, else mark and start the loop
collectAllDepsEntered ==
    /\ walk.pc = "collect"
    /\ walk.steps < MaxWalkSteps
    /\ walk.stack # <<>>
    /\ walk.stack[Len(walk.stack)].i = 0
    /\ LET n == Len(walk.stack)
           top == walk.stack[n]
       IN walk' = IF alreadyVisited(walk.visited, top.pkg)
                  THEN [walk EXCEPT !.stack = SubSeq(walk.stack, 1, n - 1),
                                    !.skipped = @ + 1, !.steps = @ + 1]
                  ELSE [walk EXCEPT !.stack[n] = Frame(top.pkg, 1),
                                    !.visited = @ \cup {top.pkg},
                                    !.expanded = Append(@, top.pkg),
                                    !.steps = @ + 1]
    /\ WalkFrame

\* one iteration of the loop of collectAllDeps: append dep and recurse, or
\* return when the imports are used up
collectAllDepsLoop ==
    /\ walk.pc = "collect"
    /\ walk.steps < MaxWalkSteps
    /\ walk.stack # <<>>
    /\ walk.stack[Len(walk.stack)].i > 0
    /\ LET n == Len(walk.stack)
           top == walk.stack[n]
           ds == GetDirectDeps(deps, top.pkg)
       IN walk' = IF top.i > Len(ds)
                  THEN [walk EXCEPT !.stack = SubSeq(walk.stack, 1, n - 1),
                                    !.steps = @ + 1]
                  ELSE [walk EXCEPT !.stack = Append([walk.stack EXCEPT
                                                        ![n] = Frame(top.pkg, top.i + 1)],
                                                     Frame(ds[top.i], 0)),
                                    !.result = Append(@, ds[top.i]),
                                    !.steps = @ + 1]
    /\ WalkFrame

\* the first call of collectAllDeps has returned: GetAllDeps returns result
GetAllDepsReturns ==
    /\ walk.pc = "collect"
    /\ walk.stack = <<>>
    /\ walk' = WalkDone(walk, walk.result)
    /\ WalkFrame

\* getDependencyChain(fromPkg, toPkg) is called
getDependencyChainCalled ==
    /\ walk.pc = "idle"
    /\ \E fromPkg \in QueryPackages, toPkg \in QueryPackages :
         walk' = [pc |-> IF fromPkg = toPkg THEN "done" ELSE "chain",
                  root |-> fromPkg, target |-> toPkg, stack |-> <<>>,
                  queue |-> IF fromPkg = toPkg THEN <<>>
                            ELSE <<[pkg |-> fromPkg, path |-> <<fromPkg>>]>>,
                  visited |-> {},
                  result |-> IF fromPkg = toPkg THEN <<fromPkg>> ELSE <<>>,
                  expanded |-> <<>>, skipped |-> 0, steps |-> 0]
    /\ WalkFrame

\* one iteration of the queue loop of getDependencyChain
getDependencyChainLoop ==
    /\ walk.pc = "chain"
    /\ walk.steps < MaxWalkSteps
    /\ walk.queue # <<>>
    /\ LET current == Head(walk.queue)
           rest == Tail(walk.queue)
           ds == GetDirectDeps(deps, current.pkg)
       IN walk' = IF alreadyVisited(walk.visited, current.pkg)
                  THEN [walk EXCEPT !.queue = rest, !.skipped = @ + 1, !.steps = @ + 1]
                  ELSE IF contains(ds, walk.target)
                  THEN [WalkDone(walk, Append(current.path, walk.target)) EXCEPT
                            !.visited = @ \cup {current.pkg},
                            !.expanded = Append(@, current.pkg),
                            !.steps = @ + 1]
                  ELSE [walk EXCEPT
                            !.queue = rest \o [i \in 1..Len(ds) |->
                                        [pkg |-> ds[i], path |-> Append(current.path, ds[i])]],
                            !.visited = @ \cup {current.pkg},
                            !.expanded = Append(@, current.pkg),
                            !.steps = @ + 1]
    /\ WalkFrame

\* the queue is empty: getDependencyChain returns nil
getDependencyChainExhausted ==
    /\ walk.pc = "chain"
    /\ walk.queue = <<>>
    /\ walk' = WalkDone(walk, <<>>)
    /\ WalkFrame

NextWalk ==
    \/ GetAllDepsCalled
    \/ collectAllDepsEntered
    \/ collectAllDepsLoop
    \/ GetAllDepsReturns
    \/ getDependencyChainCalled
    \/ getDependencyChainLoop
    \/ getDependencyChainExhausted

\* a call that was made runs on: every loop iteration that can be taken is taken
SpecWalk == InitWalk /\ [][NextWalk]_vars /\ WF_vars(NextWalk)

(***************************************************************************)
(* Properties.                                                             *)
(***************************************************************************)
AffectedQueries == {"GetAffectedResources", "GetAffectedResourcesByPackage"}

QueryOps == AffectedQueries \cup {"GetResources", "GetReverseDeps"}

KnownPackages == QueryPackages \cup (DOMAIN deps) \cup (DOMAIN reverseDeps)

NoDuplicates(s) == \A i, j \in 1..Len(s) : s[i] = s[j] => i = j

\* the number of edges of a shortest path over direct imports, -1 without a path
Successors(g, S) == UNION {SeqToSet(GetDirectDeps(g, p)) : p \in S}

RECURSIVE LayerDistance(_, _, _, _)
LayerDistance(g, frontier, seen, toPkg) ==
    IF toPkg \in frontier THEN 0
    ELSE LET next == Successors(g, frontier) \ seen
         IN IF next = {} THEN -1
            ELSE LET d == LayerDistance(g, next, seen \cup next, toPkg)
                 IN IF d = -1 THEN -1 ELSE d + 1

Distance(g, fromPkg, toPkg) == LayerDistance(g, {fromPkg}, {fromPkg}, toPkg)

ChainValid(e) ==
    LET chain == e.DependencyChain
    IN /\ chain # <<>>
       /\ chain[1] = e.Package
       /\ chain[Len(chain)] = e.AffectedPackage
       /\ \A i \in 1..(Len(chain) - 1) :
            contains(GetDirectDeps(deps, chain[i]), chain[i + 1])

\* C1: every entry returned by GetAffectedResources or
\* GetAffectedResourcesByPackage has a non-empty DependencyChain that starts at
\* the resource's package, ends at AffectedPackage, and steps along direct
\* imports of the graph.
C1_ChainValid ==
    op \in AffectedQueries => \A i \in 1..Len(ret.out) : ChainValid(ret.out[i])

\* C2: a reported DependencyChain is a shortest path: it has as many edges as
\* the distance from the resource's package to the affected package over the
\* direct imports, and it is empty only when no path exists.
C2_ChainShortest ==
    op \in AffectedQueries =>
        \A i \in 1..Len(ret.out) :
            LET e == ret.out[i]
                d == Distance(deps, e.Package, e.AffectedPackage)
            IN IF d = -1 THEN e.DependencyChain = <<>>
               ELSE Len(e.DependencyChain) = d + 1

\* a chain of two edges was reported although the first import of the
\* resource's package starts a strictly longer route to the affected package
C2_LongerRouteExists ==
    /\ op \in AffectedQueries
    /\ \E i \in 1..Len(ret.out) :
         LET e == ret.out[i]
             first == GetDirectDeps(deps, e.Package)
         IN /\ Len(e.DependencyChain) = 3
            /\ first # <<>>
            /\ first[1] # e.DependencyChain[2]
            /\ Distance(deps, first[1], e.AffectedPackage) = 2

AffectedNames(result) == {result[i].Name : i \in 1..Len(result)}

\* C3: for every list F of changed files and every file f, each resource that
\* GetAffectedResources(F) reports is reported by GetAffectedResources(F + f).
C3_MonotoneOverFiles ==
    \A F \in ChangedFileLists :
        Len(F) < MaxFiles =>
            \A n \in 1..Len(ChangedFileNames) :
                \A small \in AffectedResources(Workspace, deps, resources,
                                               reverseDeps, F) :
                    \A large \in AffectedResources(Workspace, deps, resources, reverseDeps,
                                                   Append(F, ChangedFileNames[n])) :
                        AffectedNames(small) \subseteq AffectedNames(large)

\* C4: after one successful Analyze() on a new Analyzer, a resource with a
\* package is listed under p exactly when p is its package or one of
\* GetAllDeps of its package, and no name is listed twice under a package.
C4_ReverseDepsConsistent ==
    (analyzeCalls = 1 /\ analyzeOk = 1) =>
        /\ \A p \in KnownPackages :
             \A i \in 1..Len(resources) :
                resources[i].Package # "" =>
                    (contains(LookupReverseDeps(reverseDeps, p), resources[i].Name)
                       <=> (\/ p = resources[i].Package
                            \/ contains(GetAllDeps(deps, resources[i].Package), p)))
        /\ \A p \in DOMAIN reverseDeps : NoDuplicates(reverseDeps[p])

\* a new Analyzer has indexed two resources under a package that neither
\* of them names and one of them does not import directly
C4_TransitiveIndexed ==
    /\ analyzeCalls = 1 /\ analyzeOk = 1
    /\ Len(LookupReverseDeps(reverseDeps, "m/c")) = 2
    /\ \E i \in 1..Len(resources) :
         /\ resources[i].Package # ""
         /\ ~contains(GetDirectDeps(deps, resources[i].Package), "m/c")
         /\ contains(reverseDeps["m/c"], resources[i].Name)

\* the name is justified by the current resources and the current graph
Justified(p, name) ==
    \E i \in 1..Len(resources) :
        /\ resources[i].Name = name
        /\ resources[i].Package # ""
        /\ (p = resources[i].Package \/ contains(GetAllDeps(deps, resources[i].Package), p))

\* C5: after any sequence of successful Analyze() calls, every (package, name)
\* entry of the reverse-deps index is justified by the current resource list
\* and the current graph.
C5_ReverseDepsCurrent ==
    (analyzeCalls = analyzeOk) =>
        \A p \in DOMAIN reverseDeps :
            \A i \in 1..Len(reverseDeps[p]) : Justified(p, reverseDeps[p][i])

\* C6: after a successful Analyze() the graph is exactly the one derived from
\* the latest package listing and the resources are exactly the ones the
\* latest call extracted.
C6_AnalyzeReplaces ==
    (op = "Analyze" /\ ret.err = NoError) =>
        /\ deps = Build(EmptyMap, lastListing)
        /\ resources = lastCmds

\* C7: an Analyze() that fails because the package lister fails leaves the
\* resources, the graph and the reverse-deps index as they were before the call.
C7_FailureKeepsState ==
    [][(/\ op' = "Analyze" /\ analyzeCalls' = analyzeCalls + 1
        /\ ret'.err = "failed to build dependency graph")
          => (resources' = resources /\ deps' = deps /\ reverseDeps' = reverseDeps)]_vars

\* C8, as stated: a query made before any successful Analyze() fails with a
\* "not analyzed" error.
C8_QueriesFailUninitialized ==
    (analyzeOk = 0 /\ op \in QueryOps) => ret.err = "not analyzed"

\* C8, amended: a query made before any successful Analyze() returns without
\* an error; GetAffectedResources, GetAffectedResourcesByPackage and
\* GetReverseDeps return an empty list, GetResources returns the resources of
\* the latest Analyze() attempt.
C8_QueriesEmptyUninitialized ==
    (analyzeOk = 0 /\ op \in QueryOps) =>
        /\ ret.err = NoError
        /\ (op = "GetResources" => ret.out = lastCmds)
        /\ (op # "GetResources" => ret.out = <<>>)

\* a package known to the failed attempt's resources was queried before any
\* successful Analyze()
C8_QueriedBeforeSuccess ==
    /\ analyzeOk = 0
    /\ analyzeCalls > 0
    /\ op = "GetReverseDeps"
    /\ \E i \in 1..Len(resources) : resources[i].Package = arg

SameIndex(rd1, rd2) ==
    /\ DOMAIN rd1 = DOMAIN rd2
    /\ \A p \in DOMAIN rd1 : SeqToSet(rd1[p]) = SeqToSet(rd2[p])

\* C9: a successful Analyze() that directly follows a successful Analyze() of
\* the same command files and package listing leaves the resources (as a
\* set), the graph and the reverse-deps index (as sets per package) as they
\* were, and the index lists no name twice.
C9_AnalyzeIdempotent ==
    [][(/\ op = "Analyze" /\ ret.err = NoError
        /\ op' = "Analyze" /\ ret'.err = NoError
        /\ analyzeCalls' = analyzeCalls + 1
        /\ lastListing' = lastListing
        /\ SeqToSet(lastCmds') = SeqToSet(lastCmds))
          => (/\ SeqToSet(resources') = SeqToSet(resources)
              /\ deps' = deps
              /\ SameIndex(reverseDeps', reverseDeps)
              /\ \A p \in DOMAIN reverseDeps' : NoDuplicates(reverseDeps'[p]))]_vars

\* Analyze() has just been repeated on an unchanged project with several
\* resources and a package two resources depend on
C9_RepeatedAnalyze ==
    /\ repeated
    /\ Len(resources) > 1
    /\ \E p \in DOMAIN reverseDeps : Len(reverseDeps[p]) > 1

\* C10: the list GetAffectedResources returns holds no two entries with the
\* same resource name.
C10_NoDuplicateNames ==
    op = "GetAffectedResources" =>
        \A i, j \in 1..Len(ret.out) : ret.out[i].Name = ret.out[j].Name => i = j

\* the changed files lie in two packages, and one reported resource is
\* affected through each of them
C10_AffectedThroughTwoPackages ==
    /\ op = "GetAffectedResources"
    /\ \E p, q \in ChangedPackages(arg) :
         /\ p # q
         /\ \E i \in 1..Len(ret.out) :
              LET found == getResourceByName(resources, ret.out[i].Name)
              IN /\ found # <<>>
                 /\ contains(LookupReverseDeps(reverseDeps, p), ret.out[i].Name)
                 /\ contains(LookupReverseDeps(reverseDeps, q), ret.out[i].Name)
                 /\ isResourceAffectedBySymbols(Tree, deps, found[1], p,
                        PackageChange(Workspace, filesByPackage(arg, p)))
                 /\ isResourceAffectedBySymbols(Tree, deps, found[1], q,
                        PackageChange(Workspace, filesByPackage(arg, q)))

\* the packages reachable from the set S by zero or more direct imports
RECURSIVE ReachableFrom(_, _)
ReachableFrom(g, S) ==
    IF Successors(g, S) \subseteq S THEN S ELSE ReachableFrom(g, S \cup Successors(g, S))

\* the packages reachable from p by one or more direct imports
ReachableByImports(g, p) == ReachableFrom(g, Successors(g, {p}))

\* GetAllDeps(p) lists the packages reachable from p by one or more imports
AllDepsIsClosure ==
    op = "GetAllDeps" => SeqToSet(ret.out) = ReachableByImports(deps, arg)

\* C11: GetAllDeps(p) returns, as a set, the packages reachable from p by one
\* or more direct imports other than p, and never p itself, also when p lies on
\* an import cycle.
C11_AllDepsExcludesSelf ==
    op = "GetAllDeps" =>
        /\ SeqToSet(ret.out) = ReachableByImports(deps, arg) \ {arg}
        /\ ~contains(ret.out, arg)

\* C12: every package appears exactly once in the list GetAllDeps(p) returns,
\* also when it is reachable from p along several import paths.
C12_AllDepsOnce ==
    op = "GetAllDeps" =>
        /\ NoDuplicates(ret.out)
        /\ SeqToSet(ret.out) = ReachableByImports(deps, arg)

\* a finished traversal returns what the operators GetAllDeps and
\* getDependencyChain compute
WalkMatchesOperators ==
    walk.pc = "done" =>
        walk.result = IF walk.target = "" THEN GetAllDeps(deps, walk.root)
                      ELSE getDependencyChain(deps, walk.root, walk.target)

\* C13: on every graph, with cycles and self-imports, GetAllDeps and the
\* search of getDependencyChain terminate, and no package has its imports
\* read more than once.
C13_TraversalsTerminate ==
    <>(walk.pc = "done" /\ NoDuplicates(walk.expanded) /\ walk.steps < MaxWalkSteps)

\* a traversal that started on an import cycle has finished, after the visited
\* set cut a visit short
C13_CycleWalked ==
    /\ walk.pc = "done"
    /\ walk.skipped > 0
    /\ walk.root \in ReachableByImports(deps, walk.root)

\* the declarations of the files of package pkgPath that import targetPkg
DeclsImporting(pkgPath, targetPkg) ==
    UNION {SeqToSet(f.decls) : f \in {x \in SeqToSet(DirFiles(Tree, GetPackageDir(pkgPath))) :
                                        targetPkg \in x.imports}}

\* some file of package pkgPath refers to targetPkg.X with X among names
PackageRefers(pkgPath, targetPkg, names) ==
    \E d \in DeclsImporting(pkgPath, targetPkg) :
        \E r \in d.refs : r[1] = targetPkg /\ r[2] \in names

AllDecls(pkgPath) ==
    UNION {SeqToSet(f.decls) : f \in SeqToSet(DirFiles(Tree, GetPackageDir(pkgPath)))}

ExportedNames(pkgPath) == {d.name : d \in {x \in AllDecls(pkgPath) : isExported(x.name)}}

\* the exported declarations of importer that refer to a changed symbol of
\* changedPkg
RefersToChanged(importer, changedPkg, names) ==
    {d.name : d \in {x \in DeclsImporting(importer, changedPkg) :
                        /\ isExported(x.name)
                        /\ \E r \in x.refs : r[1] = changedPkg /\ r[2] \in names}}

\* those declarations, and the exported types of importer that one of them,
\* a function, returns
BridgeSymbols(importer, changedPkg, names) ==
    LET direct == RefersToChanged(importer, changedPkg, names)
        factories == {d \in AllDecls(importer) : d.kind = "func" /\ d.name \in direct}
    IN direct \cup (UNION {SeqToSet(ReturnTypeNames(d)) : d \in factories}
                        \cap ExportedNames(importer))

\* the packages searched for resource r: its package and the subpackages
\* among its dependencies
SearchedPackages(r) ==
    {r.Package} \cup {d \in ReachableByImports(deps, r.Package) :
                        HasPrefix(d, r.Package \o "/")}

\* a searched package imports changedPkg itself and refers to a changed symbol
DirectUse(r, changedPkg, names) ==
    \E q \in SearchedPackages(r) :
        /\ contains(GetDirectDeps(deps, q), changedPkg)
        /\ PackageRefers(q, changedPkg, names)

\* a searched package q that depends on changedPkg reaches it through an
\* importer that refers to a changed symbol, and q or the resource's package
\* refers to a bridge symbol of that importer
BridgedUse(r, changedPkg, names) ==
    \E q \in SearchedPackages(r) :
        /\ changedPkg \in ReachableByImports(deps, q)
        /\ \E importer \in ReachableByImports(deps, q) \ {q} :
             /\ contains(GetDirectDeps(deps, importer), changedPkg)
             /\ PackageRefers(importer, changedPkg, names)
             /\ \/ PackageRefers(q, importer, BridgeSymbols(importer, changedPkg, names))
                \/ PackageRefers(r.Package, importer,
                                 BridgeSymbols(importer, changedPkg, names))

\* the candidates of a query whose changed files lie in the one package
\* changedPkg, outside the resource's own package tree: the general branch
GeneralCandidates(changedPkg) ==
    {r \in SeqToSet(resources) :
        /\ contains(LookupReverseDeps(reverseDeps, changedPkg), r.Name)
        /\ getResourceByName(resources, r.Name) = <<r>>
        /\ r.Package # changedPkg
        /\ ~HasPrefix(changedPkg, r.Package \o "/")}

\* C14: in the general branch, when only symbols changed and no searched
\* package uses them directly, a candidate resource is reported exactly when an
\* intermediate importer exports a bridge symbol (a declaration that refers to
\* a changed symbol, or the exported type such a function returns) and a
\* searched package that depends on the changed package, or the resource's
\* package, refers to that bridge symbol.
C14_BridgingDecides ==
    (op = "GetAffectedResources" /\ Cardinality(ChangedPackages(arg)) = 1) =>
        \A changedPkg \in ChangedPackages(arg) :
            LET info == PackageChange(Workspace, filesByPackage(arg, changedPkg))
            IN (info.symbols # <<>> /\ info.interfaceMethods = <<>>) =>
                 \A r \in GeneralCandidates(changedPkg) :
                    ~DirectUse(r, changedPkg, SeqToSet(info.symbols)) =>
                        (r.Name \in AffectedNames(ret.out)
                            <=> BridgedUse(r, changedPkg, SeqToSet(info.symbols)))

\* a query has reported a resource whose package refers to no declaration of
\* the importer that reads a changed symbol, only to the type such a factory
\* returns
FactoryBridgeReported ==
    /\ op = "GetAffectedResources"
    /\ Cardinality(ChangedPackages(arg)) = 1
    /\ \E changedPkg \in ChangedPackages(arg) :
         LET names == SeqToSet(PackageChange(Workspace,
                                  filesByPackage(arg, changedPkg)).symbols)
         IN \E r \in GeneralCandidates(changedPkg) :
               /\ ~DirectUse(r, changedPkg, names)
               /\ r.Name \in AffectedNames(ret.out)
               /\ \A importer \in ReachableByImports(deps, r.Package) :
                     ~PackageRefers(r.Package, importer,
                                    RefersToChanged(importer, changedPkg, names))

\* one query has reported a resource through a bridge symbol and left out
\* another whose package uses only a symbol of the importer that is no bridge
C14_BridgeUsedAndCut ==
    /\ op = "GetAffectedResources"
    /\ Cardinality(ChangedPackages(arg)) = 1
    /\ \E changedPkg \in ChangedPackages(arg) :
         LET info == PackageChange(Workspace, filesByPackage(arg, changedPkg))
             names == SeqToSet(info.symbols)
         IN /\ info.symbols # <<>> /\ info.interfaceMethods = <<>>
            /\ \E r1, r2 \in GeneralCandidates(changedPkg) :
                 /\ ~DirectUse(r1, changedPkg, names)
                 /\ ~DirectUse(r2, changedPkg, names)
                 /\ r1.Name \in AffectedNames(ret.out)
                 /\ r2.Name \notin AffectedNames(ret.out)
                 /\ \E importer \in ReachableByImports(deps, r2.Package) :
                      /\ PackageRefers(importer, changedPkg, names)
                      /\ PackageRefers(r2.Package, importer, ExportedNames(importer))

\* the resources GetAffectedResources looks at for changedPkg
Candidates(changedPkg) ==
    {r \in SeqToSet(resources) :
        /\ contains(LookupReverseDeps(reverseDeps, changedPkg), r.Name)
        /\ getResourceByName(resources, r.Name) = <<r>>}

\* changedPkg is the package pkgPath or lies below it
InPackageTree(changedPkg, pkgPath) ==
    changedPkg = pkgPath \/ HasPrefix(changedPkg, pkgPath \o "/")

\* some of the files yields an exported symbol or an interface method
FilesYield(files) ==
    \E i \in 1..Len(files) :
        LET change == FileChange(Workspace, files[i])
        IN \/ change.symbols # <<>>
           \/ change.infraSymbols # <<>>
           \/ change.interfaceMethods # <<>>

HasNonInfraFile(files) == \E i \in 1..Len(files) : ~isInfrastructureFile(files[i])

\* the same-package shortcut when a changed file that is no infrastructure
\* file yields a symbol or method itself
ShortcutOnOwnSymbols ==
    op = "GetAffectedResources" =>
        \A changedPkg \in ChangedPackages(arg) :
            FilesYield(SelectSeq(filesByPackage(arg, changedPkg),
                                 LAMBDA f : ~isInfrastructureFile(f))) =>
                \A r \in Candidates(changedPkg) :
                    InPackageTree(changedPkg, r.Package) => r.Name \in AffectedNames(ret.out)

\* C15: a candidate resource whose package is the changed package, or a parent
\* of it, is reported whenever a changed file of that package is no
\* infrastructure file and the changed files yield an exported symbol or an
\* interface method.
C15_SamePackageShortcut ==
    op = "GetAffectedResources" =>
        \A changedPkg \in ChangedPackages(arg) :
            (/\ HasNonInfraFile(filesByPackage(arg, changedPkg))
             /\ FilesYield(filesByPackage(arg, changedPkg))) =>
                \A r \in Candidates(changedPkg) :
                    InPackageTree(changedPkg, r.Package) => r.Name \in AffectedNames(ret.out)

\* C16: when every changed file of a package is an infrastructure file, a
\* resource whose package is that package, or a parent of it, is reported for
\* it only if a searched package uses a changed symbol, directly or through a
\* bridge symbol.
C16_InfraOnlyNeedsWitness ==
    op = "GetAffectedResources" =>
        \A changedPkg \in ChangedPackages(arg) :
            ~HasNonInfraFile(filesByPackage(arg, changedPkg)) =>
                \A i \in 1..Len(ret.out) :
                    LET r == [Name |-> ret.out[i].Name, Package |-> ret.out[i].Package]
                        names == SeqToSet(PackageChange(Workspace,
                                            filesByPackage(arg, changedPkg)).symbols)
                    IN (/\ ret.out[i].AffectedPackage = changedPkg
                        /\ InPackageTree(changedPkg, r.Package)) =>
                            \/ DirectUse(r, changedPkg, names)
                            \/ BridgedUse(r, changedPkg, names)

\* C17: when the changed files of a package yield no exported symbol and no
\* interface method, no entry is reported with that package as AffectedPackage.
C17_NoSymbolsNoReport ==
    op = "GetAffectedResources" =>
        \A changedPkg \in ChangedPackages(arg) :
            ~FilesYield(filesByPackage(arg, changedPkg)) =>
                \A i \in 1..Len(ret.out) : ret.out[i].AffectedPackage # changedPkg

\* the changed files of a resource's own package yielded nothing, and the
\* resource, a candidate, is not reported
C17_OwnPackageNotReported ==
    /\ op = "GetAffectedResources"
    /\ \E changedPkg \in ChangedPackages(arg) :
         /\ ~FilesYield(filesByPackage(arg, changedPkg))
         /\ \E r \in Candidates(changedPkg) :
              r.Package = changedPkg /\ r.Name \notin AffectedNames(ret.out)

\* the changed files for which the diff reports no line
WithoutDiffLines(files) ==
    {f \in SeqToSet(files) : GetChangedLines(Diff, f) = <<>>}

\* the exported declarations of the checked-out file
ExportedOfFile(file) ==
    LET parsed == ParseFile(Tree, AbsPath(file))
    IN IF parsed = <<>> THEN {}
       ELSE {d.name : d \in {x \in SeqToSet(parsed[1].decls) : isExported(x.name)}}

DependentResources(pkgPath) ==
    {r \in SeqToSet(resources) :
        r.Package = pkgPath \/ pkgPath \in ReachableByImports(deps, r.Package)}

\* GetAffectedResourcesByPackage has returned one entry for each dependent
\* resource and nothing else
CoarseExact ==
    /\ NoDuplicates(ret.out)
    /\ {[Name |-> ret.out[i].Name, Package |-> ret.out[i].Package] : i \in 1..Len(ret.out)}
          = DependentResources(arg)
    /\ \A i, j \in 1..Len(ret.out) : ret.out[i].Name = ret.out[j].Name => i = j

\* the coarse query on an Analyzer whose only Analyze() call succeeded
CoarseExactWhenFresh ==
    (op = "GetAffectedResourcesByPackage" /\ analyzeCalls = 1 /\ analyzeOk = 1)
        => CoarseExact

\* C19: GetAffectedResourcesByPackage(pkg) returns exactly one entry for each
\* resource whose package is pkg or transitively imports pkg, and no other.
C19_CoarseExact ==
    op = "GetAffectedResourcesByPackage" => CoarseExact

\* C20: every entry GetAffectedResources returns names as AffectedPackage the
\* package of a listed .go file that is a key of the reverse-deps index; files
\* of other packages and files without the .go extension contribute nothing,
\* so a query that lists only such files returns the empty list.
C20_Localized ==
    op = "GetAffectedResources" =>
        /\ \A i \in 1..Len(ret.out) :
             /\ ret.out[i].AffectedPackage \in DOMAIN reverseDeps
             /\ \E k \in 1..Len(arg) :
                  /\ HasSuffix(arg[k], ".go")
                  /\ ret.out[i].AffectedPackage = fileToPackage(arg[k])
        /\ (\A k \in 1..Len(arg) :
              \/ ~HasSuffix(arg[k], ".go")
              \/ fileToPackage(arg[k]) \notin DOMAIN reverseDeps) => ret.out = <<>>

\* after a successful Analyze() a query listed a file that is no Go file and a
\* Go file with changed symbols whose package is below a resource's package
\* but no key of the index, and returned the empty list
C20_UnindexedPackageChanged ==
    /\ op = "GetAffectedResources"
    /\ analyzeOk > 0
    /\ DOMAIN reverseDeps # {}
    /\ \E k \in 1..Len(arg) : ~HasSuffix(arg[k], ".go")
    /\ \E k \in 1..Len(arg) :
         /\ HasSuffix(arg[k], ".go")
         /\ fileToPackage(arg[k]) \notin DOMAIN reverseDeps
         /\ FilesYield(<<arg[k]>>)
         /\ \E r \in SeqToSet(resources) :
              HasPrefix(fileToPackage(arg[k]), r.Package \o "/")
    /\ ret.out = <<>>

(***************************************************************************)
(* C21: every node of the graph Build leaves, and every import kept under  *)
(* a node, is a package of the module: the module path itself or a path    *)
(* below it.  A package of another module whose path only begins with the  *)
(* characters of ModulePath is neither a node nor a kept import.           *)
(***************************************************************************)
InModule(pkgPath) ==
    pkgPath = ModulePath \/ HasPrefix(pkgPath, ModulePath \o "/")

C21_OnlyModulePackages ==
    \A p \in DOMAIN deps :
        /\ InModule(p)
        /\ \A i \in 1..Len(deps[p]) : InModule(deps[p][i])

(***************************************************************************)
(* C22: with the analyzed state and the list of changed files fixed, every *)
(* call of GetAffectedResources reports, for each affected resource, the   *)
(* same AffectedPackage and the same DependencyChain: the entry a call     *)
(* returned for a name is the entry every other possible call returns.     *)
(***************************************************************************)
C22_SameEntryEveryCall ==
    op = "GetAffectedResources" =>
        \A other \in AffectedResources(Workspace, deps, resources, reverseDeps, arg) :
            \A i \in 1..Len(ret.out) :
                \A j \in 1..Len(other) :
                    ret.out[i].Name = other[j].Name =>
                        /\ ret.out[i].AffectedPackage = other[j].AffectedPackage
                        /\ ret.out[i].DependencyChain = other[j].DependencyChain

(***************************************************************************)
(* The command line (cmd/impact-analyzer/main.go) and single calls of the  *)
(* pure functions.  Every run of main is a new process: it starts from a   *)
(* new Analyzer.  GitDiffs is the repository: for each ref `git diff`      *)
(* knows, the files `--name-only ref...HEAD` lists and the added lines     *)
(* `-U0 ref...HEAD -- file` reports.                                       *)
(***************************************************************************)
NoLines == [file \in {} |-> <<>>]

GitDiffs ==
    [ref \in {"main", "origin/main", "develop"} |->
        CASE ref = "main" ->
                [files |-> <<"README.md", "a/main.go", "c/x.go">>,
                 lines |-> [file \in {"README.md", "a/main.go", "c/x.go"} |->
                              CASE file = "README.md" -> <<1>>
                                [] file = "a/main.go" -> <<8>>
                                [] file = "c/x.go" -> <<2>>]]
          [] ref = "origin/main" ->
                [files |-> <<"c/x.go">>,
                 lines |-> [file \in {"c/x.go"} |-> <<12>>]]
          [] ref = "develop" ->
                [files |-> <<"c/gen.go", "c/i.go">>,
                 lines |-> [file \in {"c/gen.go", "c/i.go"} |-> <<2>>]]]

\* the values of -base: the default, two other refs, and a ref git does not know
BaseFlags == {"main", "origin/main", "develop", "v0"}

\* NewAnalyzer: the defaults of the Config, and the DiffAnalyzer made from it
NewAnalyzer(cfg) ==
    LET defaulted == [cfg EXCEPT !.CmdDir = IF @ = "" THEN "cli/cmd" ELSE @,
                                 !.BaseBranch = IF @ = "" THEN "origin/main" ELSE @]
    IN [config |-> defaulted,
        diffAnalyzer |-> [projectDir |-> defaulted.ProjectRoot,
                          baseBranch |-> defaulted.BaseBranch]]

\* getGitDiffFiles: the .go files under pathPrefix that git lists against
\* baseBranch; both forms of the command fail for a ref git does not know
getGitDiffFiles(baseBranch, pathPrefix) ==
    IF baseBranch \notin DOMAIN GitDiffs
    THEN [err |-> "git diff failed", out |-> <<>>]
    ELSE [err |-> NoError,
          out |-> SelectSeq(GitDiffs[baseBranch].files,
                            LAMBDA line : /\ HasSuffix(line, ".go")
                                          /\ (pathPrefix # "" => HasPrefix(line, pathPrefix)))]

\* what DiffAnalyzer.GetChangedLines reads: the lines against d.baseBranch,
\* nothing when git diff fails
DiffAgainst(baseBranch) ==
    IF baseBranch \in DOMAIN GitDiffs THEN GitDiffs[baseBranch].lines ELSE NoLines

\* the git commands of one run: the listing of the changed files, then one
\* line diff for every changed file that lies in a package
GitCommands(listRef, files, lineRef) ==
    <<[command |-> "diff --name-only", ref |-> listRef, file |-> ""]>>
    \o [i \in 1..Len(SelectSeq(files, LAMBDA f : fileToPackage(f) # "")) |->
            [command |-> "diff -U0", ref |-> lineRef,
             file |-> SelectSeq(files, LAMBDA f : fileToPackage(f) # "")[i]]]

\* a call that is about to be made: arg holds the function and its inputs
Called(fn) == op = "call" /\ arg.fn = fn

\* the runs of main: the value of -base, and the project it is run in
MainInputs ==
    UNION {{[fn |-> "main", baseBranch |-> baseBranch,
             extracted |-> ExtractFromDir(cmdFiles, order), listing |-> listing] :
               baseBranch \in BaseFlags, listing \in Listings,
               order \in Orderings(1..Len(cmdFiles))} : cmdFiles \in CommandDirs}

\* main with -git-diff -base=baseBranch: the Config main fills has no
\* BaseBranch; Analyze, the changed files, then GetAffectedResources
mainGitDiff ==
    /\ Called("main")
    /\ LET a == NewAnalyzer([ModulePath |-> ModulePath, ProjectRoot |-> ProjectRoot,
                             CmdDir |-> "cli/cmd", PathPrefix |-> PathPrefix,
                             BaseBranch |-> ""])
           g == Build(EmptyMap, arg.listing)
           rd == buildReverseDependencies(arg.extracted, g, EmptyMap)
           changedFiles == getGitDiffFiles(arg.baseBranch, a.config.PathPrefix)
           ws == [tree |-> Tree, diff |-> DiffAgainst(a.diffAnalyzer.baseBranch)]
       IN /\ resources' = arg.extracted
          /\ deps' = g
          /\ reverseDeps' = rd
          /\ IF changedFiles.err # NoError
             THEN ret' = [err |-> "failed to get git diff", out |-> <<>>,
                          git |-> <<[command |-> "diff --name-only",
                                     ref |-> arg.baseBranch, file |-> ""]>>]
             ELSE \E result \in AffectedResources(ws, g, arg.extracted, rd,
                                                  changedFiles.out) :
                     ret' = [err |-> NoError,
                             out |-> IF changedFiles.out = <<>> THEN <<>> ELSE result,
                             git |-> GitCommands(arg.baseBranch, changedFiles.out,
                                                 a.diffAnalyzer.baseBranch)]
    /\ op' = "main"
    /\ UNCHANGED <<arg, walk, analyzeCalls, analyzeOk, lastListing, lastCmds, repeated>>

(***************************************************************************)
(* parseUnifiedDiff (diff.go).  The output of git is read line by line; a  *)
(* diff is modelled as the sequence of its lines.                          *)
(***************************************************************************)
Digits == "0123456789"

\* s[i:j+1] of Go, cut at the end of s
Slice(s, i, j) ==
    IF i > Len(s) THEN "" ELSE SubSeq(s, i, IF j > Len(s) THEN Len(s) ELSE j)

IsDigit(s, i) ==
    i >= 1 /\ i <= Len(s) /\ StringsContains(Digits, SubSeq(s, i, i))

\* the length of the longest run of digits of s from position i on
RECURSIVE DigitRun(_, _)
DigitRun(s, i) == IF IsDigit(s, i) THEN 1 + DigitRun(s, i + 1) ELSE 0

\* strconv.Atoi of a string of digits
RECURSIVE Atoi(_)
Atoi(s) ==
    IF s = "" THEN 0
    ELSE 10 * Atoi(SubSeq(s, 1, Len(s) - 1))
         + (CHOOSE d \in 0..9 : SubSeq(Digits, d + 1, d + 1) = SubSeq(s, Len(s), Len(s)))

\* the end of an optional ",\d+" that starts at position i
AfterCount(s, i) ==
    IF Slice(s, i, i) = "," /\ DigitRun(s, i + 1) > 0
    THEN i + 1 + DigitRun(s, i + 1) ELSE i

\* a match of `@@ -\d+(?:,\d+)? \+(\d+)(?:,(\d+))? @@` that starts at
\* position i: <<new start>>, or <<>> without a match
hunkRegexAt(s, i) ==
    LET old == i + 4
        plus == AfterCount(s, old + DigitRun(s, old))
        new == plus + 2
        close == AfterCount(s, new + DigitRun(s, new))
    IN IF /\ Slice(s, i, i + 3) = "@@ -"
          /\ DigitRun(s, old) > 0
          /\ Slice(s, plus, plus + 1) = " +"
          /\ DigitRun(s, new) > 0
          /\ Slice(s, close, close + 2) = " @@"
       THEN <<Atoi(SubSeq(s, new, new + DigitRun(s, new) - 1))>>
       ELSE <<>>

\* hunkRegex.FindStringSubmatch: the leftmost match anywhere in the line
hunkRegex(s) ==
    LET starts == {i \in 1..Len(s) : hunkRegexAt(s, i) # <<>>}
    IN IF starts = {} THEN <<>>
       ELSE hunkRegexAt(s, CHOOSE i \in starts : \A j \in starts : i <= j)

\* the loop of parseUnifiedDiff over the remaining lines
RECURSIVE scanDiff(_, _, _, _)
scanDiff(lines, currentNewLine, inHunk, changedLines) ==
    IF lines = <<>> THEN changedLines
    ELSE LET line == Head(lines)
             rest == Tail(lines)
         IN IF hunkRegex(line) # <<>>
            THEN scanDiff(rest, hunkRegex(line)[1], TRUE, changedLines)
            ELSE IF ~inHunk
            THEN scanDiff(rest, currentNewLine, inHunk, changedLines)
            ELSE IF \/ HasPrefix(line, "diff ") \/ HasPrefix(line, "index ")
                    \/ HasPrefix(line, "--- ") \/ HasPrefix(line, "+++ ")
            THEN scanDiff(rest, currentNewLine, inHunk, changedLines)
            ELSE IF HasPrefix(line, "+")
            THEN scanDiff(rest, currentNewLine + 1, inHunk,
                          Append(changedLines, currentNewLine))
            ELSE IF HasPrefix(line, "-")
            THEN scanDiff(rest, currentNewLine, inHunk, changedLines)
            ELSE IF HasPrefix(line, " ")
            THEN scanDiff(rest, currentNewLine + 1, inHunk, changedLines)
            ELSE scanDiff(rest, currentNewLine, inHunk, changedLines)

parseUnifiedDiff(lines) == scanDiff(lines, 0, FALSE, <<>>)

(***************************************************************************)
(* The diffs git can print for one file: one or two hunks, each a start    *)
(* line in the new file and a body of added, removed and context lines.    *)
(***************************************************************************)
MaxHunkLines == 2

DiffLine(mark, text) == [mark |-> mark, text |-> text]

\* the text of a changed line is any text: code, a line of an embedded
\* diff ("++ b/f.go", "@@ -1 +9 @@"), an SQL comment ("-- name")
BodyLines ==
    {DiffLine("+", "x"), DiffLine("-", "y"), DiffLine(" ", "z"),
     DiffLine("+", "++ b/f.go"), DiffLine("-", "-- name"),
     DiffLine("+", "@@ -1 +9 @@")}

Bodies == UNION {[1..n -> BodyLines] : n \in 1..MaxHunkLines}

Hunk(newStart, body) == [newStart |-> newStart, body |-> body]

DiffHunks ==
    {<<Hunk(start, body)>> : start \in {1, 3}, body \in Bodies}
    \cup {<<Hunk(start, body), Hunk(10, second)>> :
            start \in {1, 3}, body \in Bodies, second \in Bodies}

CountMarks(body, marks) == Len(SelectSeq(body, LAMBDA l : l.mark \in marks))

\* "start" for one line, "start,count" otherwise, as git prints a range
RangeText(start, count) ==
    IF count = 1 THEN ToString(start) ELSE ToString(start) \o "," \o ToString(count)

HunkText(h) ==
    <<"@@ -" \o RangeText(h.newStart, CountMarks(h.body, {"-", " "}))
      \o " +" \o RangeText(h.newStart, CountMarks(h.body, {"+", " "})) \o " @@">>
    \o [i \in 1..Len(h.body) |-> h.body[i].mark \o h.body[i].text]

\* the output of `git diff base...HEAD -- f.go`
DiffOutput(hunks) ==
    <<"diff --git a/f.go b/f.go", "index 1a2b3c4..5d6e7f8 100644", "--- a/f.go",
      "+++ b/f.go">>
    \o FlattenSeq([i \in 1..Len(hunks) |-> HunkText(hunks[i])])

ParseInputs ==
    {[fn |-> "parseUnifiedDiff", hunks |-> hunks, diffOutput |-> DiffOutput(hunks)] :
        hunks \in DiffHunks}

\* one call of parseUnifiedDiff on the output git prints for a diff
parseUnifiedDiffCalled ==
    /\ Called("parseUnifiedDiff")
    /\ op' = "parseUnifiedDiff"
    /\ ret' = [err |-> NoError, out |-> parseUnifiedDiff(arg.diffOutput)]
    /\ UNCHANGED <<arg, walk, resources, deps, reverseDeps, analyzeCalls, analyzeOk,
                   lastListing, lastCmds, repeated>>

(***************************************************************************)
(* Single calls of GetChangedSymbolsDetailed: every file of the project    *)
(* and s.go, with every ascending list of one or two changed lines.        *)
(***************************************************************************)
MaxLine == 14

\* s.go: the interface Client, a function named like its method, two
\* unexported functions, the second with an interface declared in its body
SGo ==
    SourceFile("s.go", {},
        <<[Decl("Client", "type", 1, 4, {}, {}) EXCEPT
              !.methods = <<Method("Fetch", 2, 2), Method("Close", 3, 3)>>],
          Decl("Fetch", "func", 5, 6, {}, {}),
          Decl("fetchAll", "func", 7, 8, {}, {}),
          [Decl("retry", "func", 9, 12, {}, {}) EXCEPT
              !.locals = <<[Decl("Doer", "type", 10, 11, {}, {}) EXCEPT
                               !.methods = <<Method("Do", 11, 11)>>]>>],
          Decl("Row", "type", 13, 13, {}, {}),
          Decl("Limit", "value", 14, 14, {}, {})>>)

ParsedFiles == {MainGo, JGo, UGo, XGo, GenGo, IGo, DGo, SGo}

\* ascending lists of one or two changed lines
ChangedLineLists ==
    {<<l>> : l \in 1..MaxLine}
    \cup {ll \in {<<l, k>> : l \in 1..MaxLine, k \in 1..MaxLine} : ll[1] < ll[2]}

SymbolInputs ==
    {[fn |-> "GetChangedSymbolsDetailed", file |-> file, changedLines |-> changedLines] :
        file \in ParsedFiles, changedLines \in ChangedLineLists}

GetChangedSymbolsDetailedCalled ==
    /\ Called("GetChangedSymbolsDetailed")
    /\ op' = "GetChangedSymbolsDetailed"
    /\ ret' = [err |-> NoError,
               out |-> GetChangedSymbolsDetailed(arg.file, arg.changedLines)]
    /\ UNCHANGED <<arg, walk, resources, deps, reverseDeps, analyzeCalls, analyzeOk,
                   lastListing, lastCmds, repeated>>

(***************************************************************************)
(* A second project, for single calls of the affected decision: the        *)
(* resource packages m/r and m/n reach the package m/sqlc through          *)
(* m/s -> m/t and through m/t.  sqlc/querier.go is an infrastructure file  *)
(* by the default patterns.                                                *)
(***************************************************************************)
QGo ==
    SourceFile("q.go", {},
        <<Decl("Load", "func", 1, 3, {}, {}), Decl("scan", "func", 5, 7, {}, {})>>)

ApiGo ==
    SourceFile("api.go", {},
        <<[Decl("Reader", "type", 1, 3, {}, {}) EXCEPT
              !.methods = <<Method("Read", 2, 2)>>]>>)

QuerierGo ==
    SourceFile("querier.go", {},
        <<[Decl("Querier", "type", 1, 4, {}, {}) EXCEPT
              !.methods = <<Method("GetUser", 2, 2), Method("ListUsers", 3, 3)>>]>>)

\* Store reaches sqlc.Load; Poll calls the method Read of sqlc.Reader
TGo ==
    SourceFile("t.go", {"m/sqlc"},
        <<Decl("Store", "func", 1, 3, {<<"m/sqlc", "Load">>}, {}),
          Decl("Poll", "func", 5, 7, {}, {"Read"})>>)

SrvGo ==
    SourceFile("s.go", {"m/t"}, <<Decl("Serve", "func", 1, 3, {<<"m/t", "Store">>}, {})>>)

RGo ==
    SourceFile("r.go", {"m/s"}, <<Decl("Main", "func", 1, 3, {<<"m/s", "Serve">>}, {})>>)

NGo ==
    SourceFile("n.go", {"m/t"}, <<Decl("Run", "func", 1, 3, {<<"m/t", "Poll">>}, {})>>)

TreeDeep ==
    [dir \in {"n", "r", "s", "t", "sqlc"} |->
        CASE dir = "n" -> <<NGo>>
          [] dir = "r" -> <<RGo>>
          [] dir = "s" -> <<SrvGo>>
          [] dir = "t" -> <<TGo>>
          [] dir = "sqlc" -> <<QGo, ApiGo, QuerierGo>>]

LDeep ==
    <<Package("m/n", <<"m/t">>), Package("m/r", <<"m/s">>), Package("m/s", <<"m/t">>),
      Package("m/t", <<"m/sqlc">>), Package("m/sqlc", <<>>)>>

DeepResources ==
    {Resource("deep", "m/r"), Resource("mid", "m/s"), Resource("near", "m/n"),
     Resource("store", "m/t")}

DeepFileNames == <<"sqlc/api.go", "sqlc/q.go", "sqlc/querier.go">>

\* the changed files of m/sqlc a caller passes: every non-empty selection
DeepFileLists ==
    {SelectSeq(DeepFileNames, LAMBDA f : f \in chosen) :
        chosen \in (SUBSET SeqToSet(DeepFileNames)) \ {{}}}

\* the lines git reports for each file: none, line 2, or line 6
DeepDiffs == [SeqToSet(DeepFileNames) -> {<<>>, <<2>>, <<6>>}]

DecisionInputs ==
    {[fn |-> "isResourceAffectedBySymbols", resource |-> resource,
      changedPkgPath |-> "m/sqlc", files |-> files, diff |-> diff] :
        resource \in DeepResources, files \in DeepFileLists, diff \in DeepDiffs}

\* the body of the loop of GetAffectedResources for the changed package
\* m/sqlc and one resource: the symbols are gathered, then the decision
isResourceAffectedBySymbolsCalled ==
    /\ Called("isResourceAffectedBySymbols")
    /\ LET info == PackageChange([tree |-> TreeDeep, diff |-> arg.diff], arg.files)
       IN ret' = [err |-> NoError, info |-> info,
                  out |-> isResourceAffectedBySymbols(TreeDeep, Build(EmptyMap, LDeep),
                              arg.resource, arg.changedPkgPath, info)]
    /\ op' = "isResourceAffectedBySymbols"
    /\ UNCHANGED <<arg, walk, resources, deps, reverseDeps, analyzeCalls, analyzeOk,
                   lastListing, lastCmds, repeated>>

(***************************************************************************)
(* The specification of the command line and the single calls, and the     *)
(* specification of the affected decision in the second project: a new     *)
(* process with one call to make, and the call.                            *)
(***************************************************************************)
CallOf(inputs) ==
    /\ resources = <<>>
    /\ deps = EmptyMap
    /\ reverseDeps = EmptyMap
    /\ analyzeCalls = 0
    /\ analyzeOk = 0
    /\ lastListing = <<>>
    /\ lastCmds = <<>>
    /\ repeated = FALSE
    /\ op = "call"
    /\ arg \in inputs
    /\ ret = [err |-> NoError, out |-> <<>>]
    /\ walk = NoWalk

InitCalls == CallOf(MainInputs) \/ CallOf(ParseInputs) \/ CallOf(SymbolInputs)

NextCalls ==
    \/ mainGitDiff
    \/ parseUnifiedDiffCalled
    \/ GetChangedSymbolsDetailedCalled

SpecCalls == InitCalls /\ [][NextCalls]_vars

InitDecision == CallOf(DecisionInputs)

NextDecision == isResourceAffectedBySymbolsCalled

SpecDecision == InitDecision /\ [][NextDecision]_vars

(***************************************************************************)
(* C23: a run of main with -git-diff -base=B reads every diff against B:   *)
(* the git command that lists the changed files and the git commands that  *)
(* compute the changed lines all name the ref B.                           *)
(***************************************************************************)
C23_BaseUsedThroughout ==
    op = "main" =>
        \A i \in 1..Len(ret.git) : ret.git[i].ref = arg.baseBranch

(***************************************************************************)
(* C25: when every changed line of a file lies inside one unexported       *)
(* function of the file, GetChangedSymbolsDetailed reports                 *)
(* HasUnexportedChanges, no interface method, and as symbols exactly the   *)
(* exported symbols the file declares (its exported package-level          *)
(* functions, types and values).                                           *)
(***************************************************************************)
InsideOneUnexportedFunction(file, changedLines) ==
    \E k \in 1..Len(file.decls) :
        /\ file.decls[k].kind = "func"
        /\ ~isExported(file.decls[k].name)
        /\ \A i \in 1..Len(changedLines) :
             /\ changedLines[i] >= file.decls[k].start
             /\ changedLines[i] <= file.decls[k].end

DeclaredExported(file) ==
    {file.decls[k].name : k \in {j \in 1..Len(file.decls) : isExported(file.decls[j].name)}}

ExportedOnly(file, symbolInfo) ==
    /\ symbolInfo.HasUnexportedChanges
    /\ SeqToSet(symbolInfo.Symbols) = DeclaredExported(file)
    /\ symbolInfo.InterfaceMethods = <<>>

C25_ExportedOnlySensitivity ==
    (op = "GetChangedSymbolsDetailed"
        /\ InsideOneUnexportedFunction(arg.file, arg.changedLines))
    => ExportedOnly(arg.file, ret.out)

\* the same for the files that declare nothing inside a function body
ExportedOnlyWithoutLocals ==
    (op = "GetChangedSymbolsDetailed"
        /\ InsideOneUnexportedFunction(arg.file, arg.changedLines)
        /\ \A k \in 1..Len(arg.file.decls) : arg.file.decls[k].locals = <<>>)
    => ExportedOnly(arg.file, ret.out)

(***************************************************************************)
(* C29: parseUnifiedDiff returns exactly the numbers, in the new file, of  *)
(* the added lines of the hunks, whatever the text of the lines.           *)
(***************************************************************************)
RECURSIVE HunkAdded(_, _)
HunkAdded(body, newLine) ==
    IF body = <<>> THEN <<>>
    ELSE IF Head(body).mark = "+"
    THEN <<newLine>> \o HunkAdded(Tail(body), newLine + 1)
    ELSE IF Head(body).mark = " " THEN HunkAdded(Tail(body), newLine + 1)
    ELSE HunkAdded(Tail(body), newLine)

AddedLines(hunks) ==
    FlattenSeq([i \in 1..Len(hunks) |-> HunkAdded(hunks[i].body, hunks[i].newStart)])

C29_AddedLinesExact ==
    op = "parseUnifiedDiff" => ret.out = AddedLines(arg.hunks)

\* the same for the diffs whose added lines are neither "++ ..." nor hold
\* the text of a hunk header
PlainText(hunks) ==
    \A i \in 1..Len(hunks) :
        \A k \in 1..Len(hunks[i].body) :
            hunks[i].body[k].mark = "+" => hunks[i].body[k].text = "x"

AddedLinesExactForPlainText ==
    (op = "parseUnifiedDiff" /\ PlainText(arg.hunks)) => ret.out = AddedLines(arg.hunks)

(***************************************************************************)
(* C24: the change summary GetAffectedResources gathers for a package is   *)
(* the union, over all changed files of the package, infrastructure files  *)
(* and other files alike, of the symbols and of the interface methods each *)
(* file yields (less the names of the interfaces whose methods changed),   *)
(* and its hasUnexportedChanges is the OR over the files.                  *)
(***************************************************************************)
\* what one changed file yields, whatever kind of file it is
FileSummary(ws, file) ==
    LET changedLines == GetChangedLines(ws.diff, file)
        parsed == ParseFile(ws.tree, AbsPath(file))
    IN IF parsed = <<>>
       THEN [Symbols |-> <<>>, InterfaceMethods |-> <<>>, HasUnexportedChanges |-> FALSE]
       ELSE IF changedLines = <<>>
       THEN [Symbols |-> ExtractExportedSymbols(parsed[1]), InterfaceMethods |-> <<>>,
             HasUnexportedChanges |-> FALSE]
       ELSE GetChangedSymbolsDetailed(parsed[1], changedLines)

MethodKeys(methods) == {MethodKey(methods[i]) : i \in 1..Len(methods)}

SummaryIsUnion(ws, files, info) ==
    LET methodKeys == UNION {MethodKeys(FileSummary(ws, files[i]).InterfaceMethods) :
                                i \in 1..Len(files)}
        symbolsOfFiles == UNION {SeqToSet(FileSummary(ws, files[i]).Symbols) :
                                    i \in 1..Len(files)}
    IN /\ MethodKeys(info.interfaceMethods) = methodKeys
       /\ SeqToSet(info.symbols) = symbolsOfFiles \ {key[1] : key \in methodKeys}
       /\ info.hasUnexportedChanges
            = (\E i \in 1..Len(files) : FileSummary(ws, files[i]).HasUnexportedChanges)

C24_SummaryIsUnion ==
    op = "GetAffectedResources" =>
        \A pkgPath \in ChangedPackages(arg) :
            SummaryIsUnion(Workspace, filesByPackage(arg, pkgPath),
                           PackageChange(Workspace, filesByPackage(arg, pkgPath)))

\* the same for the packages none of whose changed files is an
\* infrastructure file
SummaryIsUnionWithoutInfra ==
    op = "GetAffectedResources" =>
        \A pkgPath \in ChangedPackages(arg) :
            (\A i \in 1..Len(filesByPackage(arg, pkgPath)) :
                ~isInfrastructureFile(filesByPackage(arg, pkgPath)[i]))
            => SummaryIsUnion(Workspace, filesByPackage(arg, pkgPath),
                              PackageChange(Workspace, filesByPackage(arg, pkgPath)))

(***************************************************************************)
(* C26: the symbols handed to the affected decision for a package never    *)
(* hold the name of an interface one of whose methods changed in the       *)
(* package: a change inside an interface method marks the method, not the  *)
(* interface type.                                                         *)
(***************************************************************************)
DecisionWorkspace == [tree |-> TreeDeep, diff |-> arg.diff]

ChangedInterfaceNames(ws, files) ==
    {key[1] : key \in UNION {MethodKeys(FileSummary(ws, files[i]).InterfaceMethods) :
                                i \in 1..Len(files)}}

C26_NoChangedInterfaceName ==
    op = "isResourceAffectedBySymbols" =>
        SeqToSet(ret.info.symbols) \cap ChangedInterfaceNames(DecisionWorkspace, arg.files)
            = {}

\* the same for the interface methods the summary holds
NoNameOfGatheredMethod ==
    op = "isResourceAffectedBySymbols" =>
        \A i \in 1..Len(ret.info.interfaceMethods) :
            ~contains(ret.info.symbols, ret.info.interfaceMethods[i].InterfaceName)

(***************************************************************************)
(* C27: in the general branch a resource is reported whenever, for some    *)
(* direct importer I of the changed package, code of I calls a changed     *)
(* interface method and the bridging check for the methods passes,         *)
(* whatever the check of the changed symbols gave for the same I.          *)
(***************************************************************************)
DeepGraph == Build(EmptyMap, LDeep)

GeneralBranch(resource, changedPkgPath) ==
    /\ resource.Package # changedPkgPath
    /\ ~HasPrefix(changedPkgPath, resource.Package \o "/")
    /\ ~StringsContains(changedPkgPath, "/pkg/provider/")
    /\ ~isAggregatorProviderPackage(changedPkgPath)

MethodWitness(tree, g, resource, pkg, directImporter, changedPkgPath, info) ==
    /\ contains(GetAllDeps(g, pkg), changedPkgPath)
    /\ contains(directImporters(g, pkg, changedPkgPath), directImporter)
    /\ info.interfaceMethods # <<>>
    /\ CheckMethodCallUsage(tree, GetPackageDir(directImporter), changedPkgPath,
                            info.interfaceMethods).uses
    /\ \/ directImporter = pkg
       \/ UsesAffectedFromImporter(tree, resource, pkg, directImporter,
             getAffectedExportedSymbolsByMethods(tree, directImporter, changedPkgPath,
                                                 info.interfaceMethods))

C27_MethodWitnessIndependent ==
    (/\ op = "isResourceAffectedBySymbols"
     /\ GeneralBranch(arg.resource, arg.changedPkgPath)
     /\ \E n \in 1..Len(packagesToCheck(DeepGraph, arg.resource)) :
          \E directImporter \in DOMAIN DeepGraph :
             MethodWitness(TreeDeep, DeepGraph, arg.resource,
                           packagesToCheck(DeepGraph, arg.resource)[n], directImporter,
                           arg.changedPkgPath, ret.info))
    => ret.out

\* the same when the changed symbols are used by no direct importer
MethodWitnessWithoutSymbolUse ==
    (/\ op = "isResourceAffectedBySymbols"
     /\ GeneralBranch(arg.resource, arg.changedPkgPath)
     /\ \A directImporter \in DOMAIN DeepGraph :
          ~CheckSymbolUsage(TreeDeep, GetPackageDir(directImporter), arg.changedPkgPath,
                            ret.info.symbols).uses
     /\ \E n \in 1..Len(packagesToCheck(DeepGraph, arg.resource)) :
          \E directImporter \in DOMAIN DeepGraph :
             MethodWitness(TreeDeep, DeepGraph, arg.resource,
                           packagesToCheck(DeepGraph, arg.resource)[n], directImporter,
                           arg.changedPkgPath, ret.info))
    => ret.out

(***************************************************************************)
(* C28: when the package of a resource reaches the changed package through *)
(* two or more intermediate packages, and every package on the way refers  *)
(* to an exported symbol of the next whose declaration leads on to a       *)
(* changed symbol, the resource is reported.                               *)
(***************************************************************************)
DeclsOf(tree, pkgPath) ==
    UNION {SeqToSet(f.decls) : f \in SeqToSet(DirFiles(tree, GetPackageDir(pkgPath)))}

\* the symbol sym of package pkgPath is a changed symbol, or an exported
\* declaration that refers to a symbol which leads to one, in at most
\* `hops` further packages
RECURSIVE LeadsToChange(_, _, _, _, _, _)
LeadsToChange(tree, pkgPath, sym, changedPkgPath, changedSymbols, hops) ==
    IF pkgPath = changedPkgPath THEN contains(changedSymbols, sym)
    ELSE /\ hops > 0
         /\ isExported(sym)
         /\ \E d \in DeclsOf(tree, pkgPath) :
              /\ d.name = sym
              /\ \E r \in d.refs :
                   LeadsToChange(tree, r[1], r[2], changedPkgPath, changedSymbols,
                                 hops - 1)

ChainOfUse(tree, pkgPath, changedPkgPath, changedSymbols, hops) ==
    \E d \in DeclsOf(tree, pkgPath) :
        \E r \in d.refs :
            LeadsToChange(tree, r[1], r[2], changedPkgPath, changedSymbols, hops)

C28_LongChainReported ==
    (/\ op = "isResourceAffectedBySymbols"
     /\ Distance(DeepGraph, arg.resource.Package, arg.changedPkgPath) >= 3
     /\ ChainOfUse(TreeDeep, arg.resource.Package, arg.changedPkgPath,
                   ret.info.symbols, Len(LDeep)))
    => ret.out

\* the same for a chain through one intermediate package
ShortChainReported ==
    (/\ op = "isResourceAffectedBySymbols"
     /\ Distance(DeepGraph, arg.resource.Package, arg.changedPkgPath) \in {1, 2}
     /\ ChainOfUse(TreeDeep, arg.resource.Package, arg.changedPkgPath,
                   ret.info.symbols, Len(LDeep)))
    => ret.out

(***************************************************************************)
(* C30: the queries leave the analysis state alone.                        *)
(***************************************************************************)
ReadOnlyQueries == AffectedQueries \cup {"GetReverseDeps"}

\* the result of the latest query names the resources that every possible
\* result of the same query on the analysis state names
SameNamesOnThisState ==
    /\ (op = "GetAffectedResources") =>
          \A x \in AffectedResources(Workspace, deps, resources, reverseDeps, arg) :
              AffectedNames(x) = AffectedNames(ret.out)
    /\ (op = "GetAffectedResourcesByPackage") =>
          AffectedNames(ret.out)
            = AffectedNames(AffectedResourcesByPackage(arg, resources, deps, reverseDeps))
    /\ (op = "GetReverseDeps") =>
          ret.out = LookupReverseDeps(reverseDeps, arg)

\* C30: GetAffectedResources, GetAffectedResourcesByPackage and GetReverseDeps
\* leave the resource list, the graph and the reverse-deps index as the latest
\* Analyze() left them, and each returns the set of affected resource names
\* that the same query returns on that state, whatever queries came before.
C30_QueriesReadOnly ==
    /\ [][(op' \in ReadOnlyQueries) =>
             /\ UNCHANGED <<resources, deps, reverseDeps>>
             /\ resources' = lastCmds']_vars
    /\ [](op \in ReadOnlyQueries => SameNamesOnThisState)

\* a query on an analyzed project that has several possible results, all of
\* them naming the same resources
C30_QueryWithSeveralResults ==
    /\ op = "GetAffectedResources"
    /\ analyzeOk > 0
    /\ ret.out # <<>>
    /\ Cardinality(AffectedResources(Workspace, deps, resources, reverseDeps, arg)) > 1

====
